---- MODULE Spec2Model ----
(***************************************************************************)
(* State-store model of the S2S protocol layer: the server / user /        *)
(* channel maps of one Network and the inbound handlers and public         *)
(* operations of the UnrealIRCd and ngIRCd dialect modules that change     *)
(* them (src/protocols/ircs2s_common.py, unreal.py, ngircd.py), and the     *)
(* cross-network broadcast command of src/plugins/global.py.               *)
(***************************************************************************)
EXTENDS Integers, Sequences, FiniteSets, TLC

\* ------------------------------------------------------------------ bounds
MaxTS == 3            \* timestamps range over 1..MaxTS
MaxPuid == 1          \* pseudo-UIDs allocated by a PUID generator
MaxSpawn == 1         \* UIDs issued by the TS6 UID generator
MaxSent == 4          \* frames submitted on one connection
MaxToks == 3          \* tokens of a line handed to the tokenizer
MaxTokLen == 2        \* characters of a token
MaxOps == 1           \* frames the public operations of a client submit
MaxUmodes == 2        \* signed modes of a user-mode string
MaxPrefixes == 5      \* prefix modes of one user of an SJOIN

\* ---------------------------------------------------------------- universe
Null == "null"                    \* Python None
Hostname == "pylink.int"          \* serverdata['hostname']
UnrealSid == "0AL"                \* serverdata['sid'] on UnrealIRCd
Dialects == {"unreal", "ngircd"}
UplinkSid == "001"                \* SID=... of the uplink's PROTOCTL
RemoteSids == {"00A", "00B"}      \* SIDs introduced by SID lines
LegacyNames == {"c.net", "d.net"} \* servers introduced by a legacy SERVER line
NgNames == {"up.net", "a.net"}    \* server names on the ngIRCd link
RemoteUids == {"00AAAA", "00BAAA"}
OwnUids == <<"0ALAAA", "0ALAAB">>  \* the first UIDs of uidgen[UnrealSid]
Nicks == {"alice", "bob"}
Chans == {"#c"}
BurstChans == {"#c"}                \* the channel an SJOIN names
TSValues == 1..MaxTS
PrefixChars == {"o", "v"}

\* The name a SID line carries for each SID of the universe.
SidName(sid) ==
    CASE sid = "001" -> "up.net"
      [] sid = "00A" -> "a.net"
      [] sid = "00B" -> "b.net"
      [] OTHER -> sid

\* str.lower() on the strings of the universe.
Lower(s) ==
    CASE s = "00A" -> "00a"
      [] s = "00B" -> "00b"
      [] s = "0AL" -> "0al"
      [] s = "A.NET" -> "a.net"
      [] s = "UP.NET" -> "up.net"
      [] s = "PING" -> "ping"
      [] s = "KILL" -> "kill"
      [] s = "QUIT" -> "quit"
      [] s = "UID" -> "uid"
      [] s = "EOS" -> "eos"
      [] s = "SU" -> "su"
      [] s = "ENCAP" -> "encap"
      [] OTHER -> s

\* str.upper() on the strings of the universe.
Upper(s) ==
    CASE s = "ping" -> "PING"
      [] s = "kill" -> "KILL"
      [] s = "x" -> "X"
      [] OTHER -> s

\* What a SQUIT line can name: SIDs, server names, and names in upper case.
SquitTargets ==
    {UnrealSid, Hostname, UplinkSid, "UP.NET", "A.NET", "zz.net"} \cup RemoteSids \cup LegacyNames

VARIABLES
    dialect,      \* which protocol module the Network runs
    link,         \* "up", or "dead" once a ProtocolError unwound the dispatch
    sid,          \* self.sid
    uplink,       \* self.uplink
    connected,    \* self.connected (an Event)
    caps,         \* UnrealProtocol.caps, as a set
    permanent,    \* self.cmodes.get('permanent')
    puid,         \* next counter of the PUID generator
    uidn,         \* UIDs issued so far to clients of ours
    servers,      \* self.servers : SID -> Server
    users,        \* self.users   : UID -> User
    channels,     \* self.channels: name -> Channel
    has_eob,      \* NgIRCdProtocol.has_eob
    sendq,        \* frames submitted to the send queue and not yet written
    wire,         \* frames written to the socket, in the order written
    sent,         \* number of frames submitted on this connection
    networkobjects, \* world.networkobjects: name -> pseudoclient.channels
    g_frame,      \* the running call of the 'global' command, if any
    accesses,     \* which thread touched which Network's state or methods
    issued,       \* the pseudo-UIDs handed out since the Network was made
    calc,         \* a call of a pure function: its argument and what it gave
    isupport,     \* what 005 lines set: _caps, cmodes, prefixmodes, casemapping, maxnicklen
    passed,       \* history: the uplink's PASS with recvpass came on this connection
    last          \* what the last handler or operation did and returned

vars == <<dialect, link, sid, uplink, connected, caps, permanent, puid, uidn,
          servers, users, channels, has_eob, sendq, wire, sent,
          networkobjects, g_frame, accesses, issued, calc, isupport, passed, last>>

\* --------------------------------------------------------------- entities
\* The Networks of the registry, in the order the registry is walked, and
\* the channels their pseudoclients sit in.
Nets == <<"netA", "netB">>
NetNames == {Nets[i] : i \in DOMAIN Nets}
PseudoChans == {"#c", "#d"}

\* The frame of g(irc, source, args): where the call stands (pc), the
\* Network whose thread runs it (thread), the Networks still to visit, the
\* Network being visited (ircd), the set iterator over its pseudoclient's
\* channels (the size the set had when the iterator was made and what it
\* has yielded), and the channel of the body.
Frame_g(pc, thread, todo, ircd, size, seen, channel) ==
    [pc |-> pc, thread |-> thread, todo |-> todo, ircd |-> ircd,
     size |-> size, seen |-> seen, channel |-> channel]
NoCall == Frame_g("idle", Null, << >>, Null, 0, {}, Null)

\* One touch of a Network's state or methods: the Network, the thread that
\* ran it, and what was done.
Access(net, thread, what) == [net |-> net, thread |-> thread, what |-> what]

Server(up, name, internal) ==
    [uplink |-> up, name |-> name, users |-> {}, internal |-> internal]

\* The hosts of a user: realhost, cloaked_host, and a vHost.
RealHost == "real.host"
CloakedHost == "cloak.host"
User(nick, server) ==
    [nick |-> nick, server |-> server, channels |-> {}, modes |-> {}, host |-> RealHost]

\* topic stands for the pair topic, topicset: None until topic() sets it.
Channel(ts) == [ts |-> ts, users |-> {}, modes |-> {}, prefix |-> {}, topic |-> Null]

\* The three maps as one value, so that handlers are functions on it.
St(s, u, c) == [servers |-> s, users |-> u, channels |-> c]
Cur == St(servers, users, channels)

Drop(f, k) == [x \in DOMAIN f \ {k} |-> f[x]]
Put(f, k, v) == [x \in DOMAIN f \cup {k} |-> IF x = k THEN v ELSE f[x]]

\* self.channels[name] on the defaulting map: a missing channel is inserted,
\* stamped with the clock reading t.
Touch(chs, name, t) == IF name \in DOMAIN chs THEN chs ELSE Put(chs, name, Channel(t))

\* What a handler yields: the maps, the exception that escaped it ("none" if
\* it returned), whether it returned a payload, and the payload's parts
\* ('target' or 'channel', 'users', 'nicks', 'ts', 'modes'); hook is the
\* payload's 'parse_as', hooks the hooks the handler published itself with
\* call_hooks, and out the lines it sent.  A SQUIT payload has 'channeldata'
\* and 'serverdata' besides.
NoSeq == << >>
NoMap == [c \in {} |-> NoSeq]
NoSplit == [s \in {} |-> {}]

\* An inbound line after data.split(" ") and parse_args: whether its first
\* token began with ':', and its tokens with that ':' taken off.
InLine(prefixed, toks) == [prefixed |-> prefixed, toks |-> toks]
NoLine == InLine(FALSE, NoSeq)
Result(st, err, ret) ==
    [st |-> st, err |-> err, ret |-> ret, target |-> Null,
     ulist |-> NoSeq, nicks |-> NoMap, ts |-> 0, our_ts |-> 0, modes |-> {},
     hook |-> Null, hooks |-> {}, out |-> NoSeq,
     channeldata |-> NoMap, serverdata |-> Null,
     channels |-> {}, parse_as |-> Null]

\* The record of the last step: its outcome, the line's arguments (arg,
\* items) and, for a SQUIT, the servers it removed with the users each
\* hosted before it; for a line that went through handle_events, the line,
\* the sender it was attributed to and whether a handler was called.
Last(op, r) ==
    [op |-> op, err |-> r.err, ret |-> r.ret, target |-> r.target,
     ulist |-> r.ulist, nicks |-> r.nicks, ts |-> r.ts, our_ts |-> r.our_ts,
     modes |-> r.modes, hook |-> r.hook, hooks |-> r.hooks, out |-> r.out,
     arg |-> Null, items |-> NoSeq, split |-> NoSplit,
     line |-> NoLine, sender |-> Null, called |-> FALSE]

\* ------------------------------------------------------------ state store
is_internal_server(st, s) == s \in DOMAIN st.servers /\ st.servers[s].internal

is_internal_client(st, u) ==
    u \in DOMAIN st.users /\ is_internal_server(st, st.users[u].server)

\* nick_to_uid: the UID whose nick is the given one under the case mapping,
\* or None.
nick_to_uid(st, nick) ==
    IF \E u \in DOMAIN st.users : Lower(st.users[u].nick) = Lower(nick)
    THEN CHOOSE u \in DOMAIN st.users : Lower(st.users[u].nick) = Lower(nick)
    ELSE Null

\* check_nick_collision(nick): the hooks it publishes, each written as
\* <<command, target>>; the sender of each is self.sid.  Nothing is changed.
check_nick_collision(st, nick) ==
    IF nick_to_uid(st, nick) # Null THEN {<<"SAVE", nick_to_uid(st, nick)>>} ELSE {}

\* (self.cmodes.get('permanent'), None) in channel.modes
IsPermanent(ch) == permanent # Null /\ permanent \in ch.modes

\* Channel.remove_user: out of the user set and of every prefix-mode list.
remove_user(ch, u) ==
    [ch EXCEPT !.users = @ \ {u}, !.prefix = {p \in @ : p[2] # u}]

\* Empty channels that are not permanent leave the map.
ClearEmpty(chs) ==
    [c \in {x \in DOMAIN chs : chs[x].users # {} \/ IsPermanent(chs[x])} |-> chs[c]]

\* _remove_client(uid): out of every channel, of the host server's user set
\* and of the user map; channels it emptied are collected.
remove_client(st, u) ==
    LET host == st.users[u].server
        chs  == [c \in DOMAIN st.channels |-> remove_user(st.channels[c], u)]
    IN  St(IF host \in DOMAIN st.servers
              THEN [st.servers EXCEPT ![host].users = @ \ {u}]
              ELSE st.servers,
           Drop(st.users, u),
           ClearEmpty(chs))

\* -------------------------------------------------------- name resolution
\* _get_SID: the lower-cased text if it is a key, else the key of the server
\* of that name, else the text as given.
get_SID(st, sname) ==
    LET name == Lower(sname) IN
    IF name \in DOMAIN st.servers THEN name
    ELSE IF \E k \in DOMAIN st.servers : Lower(st.servers[k].name) = name
         THEN CHOOSE k \in DOMAIN st.servers : Lower(st.servers[k].name) = name
         ELSE sname

\* _get_UID: the text if it is a UID, else the UID of that nick, else the text.
get_UID(st, target) ==
    IF target \in DOMAIN st.users THEN target
    ELSE IF nick_to_uid(st, target) # Null THEN nick_to_uid(st, target)
    ELSE target

\* ------------------------------------------------------------------ SQUIT
Filter(q, S) == SelectSeq(q, LAMBDA x : x \in S)

\* affected_nicks[name].append(nick) for every channel holding the user.
AddNicks(nicks, chs, u, nick) ==
    LET in == {c \in DOMAIN chs : u \in chs[c].users} IN
    [c \in DOMAIN nicks \cup in |->
        IF c \in in
        THEN (IF c \in DOMAIN nicks THEN Append(nicks[c], nick) ELSE <<nick>>)
        ELSE nicks[c]]

\* The loop over self.servers[split_server].users.copy(): each user is noted,
\* its nick looked up (KeyError if the UID is no user) and the client removed.
RECURSIVE SquitUsers(_, _, _)
SquitUsers(r, old_channels, todo) ==
    IF todo = << >> \/ r.err # "none" THEN r
    ELSE LET u == Head(todo) IN
         IF u \notin DOMAIN r.st.users
         THEN [r EXCEPT !.err = "KeyError", !.ulist = Append(@, u)]
         ELSE SquitUsers(
                [r EXCEPT !.ulist = Append(@, u),
                          !.nicks = AddNicks(@, [c \in old_channels \cap DOMAIN r.st.channels
                                                    |-> r.st.channels[c]],
                                             u, r.st.users[u].nick),
                          !.st = remove_client(r.st, u)],
                old_channels, Tail(todo))

\* _squit(numeric, command, args), args[0] = arg.  `stack` holds the servers
\* whose _squit is still running: entering one again recurses without end
\* (RecursionError).  sord and uord are the walk orders of the server dict
\* and of the user sets.
\* Faulty variant of the check below: only the own SID is refused.
SplitIsLocalSidOnly(split) == split = sid

\* split_server in (self.sid, self.uplink)
SplitIsLocal(split) == split \in {sid, uplink}

\* Faulty variant of the test below: any target passes for a known server.
SplitExistsAlways(st, split) == TRUE

\* The negation of `split_server not in self.servers`.
SplitExists(st, split) == split \in DOMAIN st.servers

\* Faulty variant of the accumulation below: the inner list is dropped.
AccumulateNone(affected_users, inner_users) == affected_users

\* affected_users += args['users']
Accumulate(affected_users, inner_users) == affected_users \o inner_users

\* The Channel objects a copy of the channel map holds, after remove_client
\* has run for the users in `removed`: self.channels.copy() copies the map,
\* not the objects in it (the objects are copied by deepcopy(), as
\* handle_sjoin and handle_mode do), so the copy keeps its keys, and each
\* object it shares with the live map has lost the users removed since.
RECURSIVE OldChannels(_, _)
OldChannels(old_channels, removed) ==
    IF removed = << >> THEN old_channels
    ELSE OldChannels([c \in DOMAIN old_channels |-> remove_user(old_channels[c], Head(removed))],
                     Tail(removed))

RECURSIVE Squit(_, _, _, _, _), SquitLeaves(_, _, _, _, _)
Squit(st, arg, stack, sord, uord) ==
    LET split == get_SID(st, arg) IN
    IF SplitIsLocal(split)
    THEN [Result(st, "ProtocolError", FALSE) EXCEPT !.target = split]
    ELSE IF ~SplitExists(st, split)
    THEN [Result(st, "none", FALSE) EXCEPT !.target = split]
    ELSE IF split \in stack
    THEN [Result(st, "RecursionError", FALSE) EXCEPT !.target = split]
    ELSE
      LET old_channels == DOMAIN st.channels
          leaves == Filter(sord, {s \in DOMAIN st.servers : st.servers[s].uplink = split})
          r1 == SquitLeaves([Result(st, "none", TRUE) EXCEPT !.target = split],
                            leaves, stack \cup {split}, sord, uord)
      IN  IF r1.err # "none" THEN r1
          ELSE IF split \notin DOMAIN r1.st.servers
          THEN [r1 EXCEPT !.err = "KeyError", !.ret = FALSE]
          ELSE
            LET r2 == SquitUsers([r1 EXCEPT !.nicks = NoMap], old_channels,
                                 Filter(uord, r1.st.servers[split].users))
            IN  IF r2.err # "none" THEN [r2 EXCEPT !.ret = FALSE]
                ELSE [r2 EXCEPT !.st.servers = Drop(@, split),
                                !.serverdata = r2.st.servers[split],
                                !.channeldata = OldChannels(st.channels, r2.ulist)]

\* The loop over old_servers.items(): every server whose uplink is the split
\* one is split in turn and its users are added to affected_users.  The
\* 'nicks' of the inner payload are not read.
SquitLeaves(r, leaves, stack, sord, uord) ==
    IF leaves = << >> \/ r.err # "none" THEN r
    ELSE LET inner == Squit(r.st, Head(leaves), stack, sord, uord) IN
         IF inner.err # "none"
         THEN [r EXCEPT !.st = inner.st, !.err = inner.err, !.ret = FALSE]
         ELSE IF ~inner.ret
         THEN [r EXCEPT !.st = inner.st, !.err = "TypeError", !.ret = FALSE]
         ELSE SquitLeaves([r EXCEPT !.st = inner.st,
                                    !.ulist = Accumulate(@, inner.ulist)],
                          Tail(leaves), stack, sord, uord)

\* ------------------------------------------------------------------- modes
\* A parsed mode list, as utils.parse_modes yields it, kept as its two
\* parts: the simple modes set (+X) and the prefix modes (+X, uid).
Modes(simple, prefix) == [simple |-> simple, prefix |-> prefix]

\* apply_modes(channel, modes): class-table semantics for additions.
apply_modes(ch, modes) ==
    [ch EXCEPT !.modes = @ \cup modes.simple, !.prefix = @ \cup modes.prefix]

\* updateTS(sender, channel, their_ts, modes): TS reconciliation.  A lower
\* TS is adopted, the tracked channel modes are dropped and the incoming
\* ones kept (prefix modes on users remain); an equal TS merges; a higher
\* TS is ignored together with its modes.
updateTS(ch, their_ts, modes) ==
    IF their_ts < ch.ts
    THEN apply_modes([ch EXCEPT !.ts = their_ts, !.modes = {}], modes)
    ELSE IF their_ts = ch.ts
    THEN apply_modes(ch, modes)
    ELSE ch

\* ------------------------------------------------------ UnrealIRCd: inbound
NeededCaps == {"VL", "SID", "CHANMODES", "NOQUIT", "SJ3", "NICKIP", "UMODE2", "SJOIN"}

\* The PROTOCTL lines an uplink sends: its two usual lines, and the first of
\* them from a server that lacks SJ3.
ProtoctlLines ==
    { {"NOQUIT", "NICKv2", "SJOIN", "UMODE2", "VL", "SJ3", "NICKIP"},
      {"CHANMODES", "SID", "TS"},
      {"NOQUIT", "NICKv2", "SJOIN", "UMODE2", "VL", "NICKIP"} }

MinProtoVer == 4000
ProtoVers == {3999, 4000}

\* serverdata['recvpass'], and the passwords an uplink may send.
RecvPass == "recvpass"
Passwords == {RecvPass, "other"}

\* handle_pass: a password that is not the configured one is fatal; the
\* right one leaves no trace.
handle_pass(st, pw) ==
    IF pw # RecvPass THEN Result(st, "ProtocolError", FALSE)
    ELSE Result(st, "none", FALSE)

\* handle_pass of NgIRCdProtocol: the same test, then the assertion on the
\* version token.
ng_handle_pass(st, pw, ircplus) ==
    IF pw # RecvPass THEN Result(st, "ProtocolError", FALSE)
    ELSE IF ~ircplus THEN Result(st, "AssertionError", FALSE)
    ELSE Result(st, "none", FALSE)

\* handle_server, authentication branch: every needed capability and the
\* protocol version are checked before the uplink is stored.
handle_server_auth(st, numeric, sname, protover) ==
    IF ~(NeededCaps \subseteq caps) THEN Result(st, "ProtocolError", FALSE)
    ELSE IF protover < MinProtoVer THEN Result(st, "ProtocolError", FALSE)
    ELSE Result([st EXCEPT !.servers = Put(@, numeric, Server(Null, sname, FALSE))],
                "none", FALSE)

\* handle_server, legacy branch: the server is keyed by its lower-cased name
\* with the sender as uplink.
handle_server_legacy(st, numeric, sname) ==
    Result([st EXCEPT !.servers = Put(@, Lower(sname), Server(numeric, Lower(sname), FALSE))],
           "none", TRUE)

\* handle_sid: self.servers[sid] = Server(numeric, sname, ...).
handle_sid(st, numeric, sname, newsid) ==
    Result([st EXCEPT !.servers = Put(@, newsid, Server(numeric, Lower(sname), FALSE))],
           "none", TRUE)

\* handle_uid: the nick is checked for a collision, the user is stored, then
\* added to the sender's user set (KeyError if the sender is no key of the
\* server map).
handle_uid(st, numeric, nick, uid) ==
    LET st1 == [st EXCEPT !.users = Put(@, uid, User(nick, numeric))]
        hk  == check_nick_collision(st, nick)
    IN  IF numeric \notin DOMAIN st.servers
        THEN [Result(st1, "KeyError", FALSE) EXCEPT !.hooks = hk]
        ELSE [Result([st1 EXCEPT !.servers[numeric].users = @ \cup {uid}], "none", TRUE)
                EXCEPT !.hooks = hk]

\* The services-account field of a UID line: '0' or a signon time for a
\* user that is not logged in, else the account name.
Accounts == {"0", "1441306929", "acct"}
isdigit(text) == text \in {"0", "1441306929"}

\* handle_uid with the account field and the +r mode of the line: once the
\* user is stored, a numeric account becomes the nick if +r is among the
\* modes, and call_hooks publishes CLIENT_SERVICES_LOGIN from the new UID
\* unless the account is numeric; then the payload is returned.  The hooks
\* of a handler's own call_hooks are delivered as they are called, hence
\* before the payload it returns.
handle_uid_account(st, numeric, nick, uid, account, plus_r) ==
    LET r == handle_uid(st, numeric, nick, uid)
        accountname == IF plus_r /\ isdigit(account) THEN nick ELSE account
    IN  IF r.err # "none" THEN [r EXCEPT !.target = uid]
        ELSE [r EXCEPT !.target = uid,
                       !.hooks = IF ~isdigit(accountname)
                                 THEN @ \cup {<<"CLIENT_SERVICES_LOGIN", uid>>} ELSE @]

\* PUIDGenerator.next_uid(prefix): '<prefix>@<counter>'.
next_uid(prefix, n) == prefix \o "@" \o ToString(n)

\* handle_nick with more than two arguments: a legacy introduction, handed
\* to handle_uid with the lower-cased server name as sender and a pseudo-UID.
handle_nick_legacy(st, nick, servername, n) ==
    handle_uid(st, Lower(servername), nick, next_uid(nick, n))

\* handle_join, "JOIN 0": the user is discarded from the user set of every
\* channel of its channel set (each looked up on the defaulting map), and
\* the channel set is emptied.  The channels themselves stay.  The payload
\* carries the copy of the channel set taken first, to be parsed as PART.
handle_join_0(st, numeric, t) ==
    LET oldchans == st.users[numeric].channels IN
    [Result(St(st.servers,
               [st.users EXCEPT ![numeric].channels = {}],
               [c \in DOMAIN st.channels \cup oldchans |->
                   IF c \in oldchans
                   THEN [Touch(st.channels, c, t)[c] EXCEPT !.users = @ \ {numeric}]
                   ELSE st.channels[c]]),
            "none", TRUE)
        EXCEPT !.channels = oldchans, !.parse_as = "PART"]

\* handle_join, one channel: the channel is looked up (and so created), then
\* the user's channel set (KeyError if the sender is no user) and the
\* channel's user set are updated.
handle_join(st, numeric, channel, t) ==
    LET chs == Touch(st.channels, channel, t) IN
    IF numeric \notin DOMAIN st.users
    THEN Result([st EXCEPT !.channels = chs], "KeyError", FALSE)
    ELSE Result(St(st.servers,
                   [st.users EXCEPT ![numeric].channels = @ \cup {channel}],
                   [chs EXCEPT ![channel].users = @ \cup {numeric}]),
                "none", FALSE)

\* SJOIN_PREFIXES.get(prefix, ''): the characters of a mode in an SJOIN item.
SJOIN_PREFIXES(prefix) ==
    CASE prefix = "q" -> <<"*">> [] prefix = "a" -> <<"~">> [] prefix = "o" -> <<"@">>
      [] prefix = "h" -> <<"%">> [] prefix = "v" -> <<"+">> [] prefix = "b" -> <<"&">>
      [] prefix = "e" -> <<"\"">> [] prefix = "I" -> <<"'">> [] OTHER -> << >>

\* self.prefixmodes of UnrealProtocol, read from prefix character to mode.
PrefixModeOf(c) ==
    CASE c = "~" -> "q" [] c = "&" -> "a" [] c = "@" -> "o"
      [] c = "%" -> "h" [] c = "+" -> "v" [] OTHER -> Null

\* Faulty variant of the replacement below, the two replace() calls
\* swapped: '*' becomes '~' and then '&'.
SjoinReplaceSwapped(c) == IF c = "~" \/ c = "*" THEN "&" ELSE c

\* modeprefix.replace("~", "&").replace("*", "~") on one character.
SjoinReplace(c) == IF c = "~" THEN "&" ELSE IF c = "*" THEN "~" ELSE c

\* finalprefix of an SJOIN item: the modes its prefix characters stand for.
FinalPrefix(pchars) ==
    {PrefixModeOf(SjoinReplace(c)) : c \in pchars} \ {Null}

\* The texts of the users of SJOIN items, character by character, and the
\* string each one is.
SjoinUserTexts == { <<"0", "0", "A", "A", "A", "A">>, <<"[", "a", "]">> }
Text(chars) ==
    CASE chars = <<"0", "0", "A", "A", "A", "A">> -> "00AAAA"
      [] chars = <<"[", "a", "]">> -> "[a]"
      [] OTHER -> "?"

\* sjoin(), one pair of the users list: prefixchars + user, prefixchars
\* being the characters of the pair's prefix modes joined in their order.
RECURSIVE prefixchars(_)
prefixchars(prefixes) ==
    IF prefixes = << >> THEN << >>
    ELSE SJOIN_PREFIXES(Head(prefixes)) \o prefixchars(Tail(prefixes))

sjoin_item(prefixes, user) == prefixchars(prefixes) \o user

\* sjoin(), one list mode of the modes: sjoin_prefix + modepair[1].
sjoin_listitem(mode, mask) == SJOIN_PREFIXES(mode) \o mask

\* re.search(r'([~*@%+]*)(.*)', userpair).group(1): the leading run of
\* prefix characters.
RECURSIVE LeadingRun(_)
LeadingRun(userpair) ==
    IF userpair = << >> \/ Head(userpair) \notin {"~", "*", "@", "%", "+"} THEN << >>
    ELSE <<Head(userpair)>> \o LeadingRun(Tail(userpair))

\* The body of handle_sjoin's loop on one item of the user list: what it
\* adds to changedmodes, and the user it adds to namelist and to the
\* channel (None for a list item and for an item with no user).
handle_sjoin_item(st, userpair) ==
    IF userpair # << >> /\ Head(userpair) = "&"
    THEN [user |-> Null, changedmodes |-> {<<"+b", Tail(userpair)>>}]
    ELSE IF userpair # << >> /\ Head(userpair) = "\""
    THEN [user |-> Null, changedmodes |-> {<<"+e", Tail(userpair)>>}]
    ELSE IF userpair # << >> /\ Head(userpair) = "'"
    THEN [user |-> Null, changedmodes |-> {<<"+I", Tail(userpair)>>}]
    ELSE LET g1 == LeadingRun(userpair)
             g2 == SubSeq(userpair, Len(g1) + 1, Len(userpair))
         IN  IF g2 = << >> THEN [user |-> Null, changedmodes |-> {}]
             ELSE LET user == get_UID(st, Text(g2)) IN
                  [user |-> user,
                   changedmodes |->
                       {<<"+" \o mode, user>> : mode \in FinalPrefix({g1[i] : i \in DOMAIN g1})}]

\* The loop of handle_sjoin over the user list.  Each item is a pair
\* <<prefix characters, user>>; changedmodes collects the prefix modes.
RECURSIVE SjoinUsers(_, _, _, _)
SjoinUsers(r, channel, items, changed) ==
    IF items = << >> THEN [r |-> r, changed |-> changed]
    ELSE LET user == get_UID(r.st, Head(items)[2])
             pfx  == FinalPrefix(Head(items)[1])
         IN  IF user \notin DOMAIN r.st.users
             THEN [r |-> [r EXCEPT !.err = "KeyError", !.ulist = Append(@, user)],
                   changed |-> changed]
             ELSE SjoinUsers(
                    [r EXCEPT !.ulist = Append(@, user),
                              !.st.users[user].channels = @ \cup {channel},
                              !.st.channels[channel].users = @ \cup {user}],
                    channel, Tail(items),
                    Modes(changed.simple,
                          changed.prefix \cup {<<m, user>> : m \in pfx}))

\* Faulty variant of handle_sjoin: the incoming TS is recorded whatever ours is.
handle_sjoin_adopt(st, their_ts, channel, simple, items, t) ==
    LET st1 == [st EXCEPT !.channels = Touch(@, channel, t)]
        lp  == SjoinUsers(Result(st1, "none", TRUE), channel, items, Modes(simple, {}))
    IN  IF lp.r.err # "none" THEN [lp.r EXCEPT !.ret = FALSE]
        ELSE [lp.r EXCEPT !.st.channels[channel] =
                              [updateTS(@, their_ts, lp.changed) EXCEPT !.ts = their_ts],
                          !.target = channel, !.ts = their_ts,
                          !.our_ts = st1.channels[channel].ts, !.modes = simple]

\* Faulty variant of handle_sjoin: the prefix modes of the user list are not
\* handed to updateTS.
handle_sjoin_noprefix(st, their_ts, channel, simple, items, t) ==
    LET st1 == [st EXCEPT !.channels = Touch(@, channel, t)]
        lp  == SjoinUsers(Result(st1, "none", TRUE), channel, items, Modes(simple, {}))
    IN  IF lp.r.err # "none" THEN [lp.r EXCEPT !.ret = FALSE]
        ELSE [lp.r EXCEPT !.st.channels[channel] =
                              updateTS(@, their_ts, Modes(simple, {})),
                          !.target = channel, !.ts = their_ts,
                          !.our_ts = st1.channels[channel].ts, !.modes = simple]

\* Faulty variant of handle_sjoin: the modes of the burst are applied
\* whatever the two timestamps are.
handle_sjoin_merge(st, their_ts, channel, simple, items, t) ==
    LET st1 == [st EXCEPT !.channels = Touch(@, channel, t)]
        lp  == SjoinUsers(Result(st1, "none", TRUE), channel, items, Modes(simple, {}))
    IN  IF lp.r.err # "none" THEN [lp.r EXCEPT !.ret = FALSE]
        ELSE [lp.r EXCEPT !.st.channels[channel] =
                              apply_modes(updateTS(@, their_ts, lp.changed), lp.changed),
                          !.target = channel, !.ts = their_ts,
                          !.our_ts = st1.channels[channel].ts, !.modes = simple]

\* handle_sjoin(numeric, 'SJOIN', [ts, channel, modes, userlist]).  The
\* payload carries the channel, the users, the parsed modes and their TS.
handle_sjoin(st, their_ts, channel, simple, items, t) ==
    LET st1 == [st EXCEPT !.channels = Touch(@, channel, t)]
        lp  == SjoinUsers(Result(st1, "none", TRUE), channel, items, Modes(simple, {}))
    IN  IF lp.r.err # "none" THEN [lp.r EXCEPT !.ret = FALSE]
        ELSE [lp.r EXCEPT !.st.channels[channel] = updateTS(@, their_ts, lp.changed),
                          !.target = channel, !.ts = their_ts,
                          !.our_ts = st1.channels[channel].ts, !.modes = simple]

\* ------------------------------------------------- common inbound handlers
\* to_lower on channel names of the universe (ascii and rfc1459 agree here).
\* parse_modes(channel, modes): a list of <<mode with its sign, argument>>
\* pairs; ModeOf is the mode letter of a pair and ParsedModes the list as the
\* table of apply_modes sees it.
ModeOf(m) ==
    CASE m = "+n" -> "n" [] m = "+m" -> "m" [] m = "+o" -> "o"
      [] m = "+v" -> "v" [] m = "+&" -> "&" [] OTHER -> m

\* A mode with an argument that is not a prefix mode (a ban) is kept in the
\* mode set as the text '<letter> <argument>'.
ParsedModes(parsed) ==
    LET ps == {parsed[i] : i \in DOMAIN parsed} IN
    Modes({ModeOf(x[1]) : x \in {y \in ps : y[2] = Null}}
            \cup {ModeOf(x[1]) \o " " \o x[2] :
                    x \in {y \in ps : y[2] # Null /\ ModeOf(y[1]) \notin PrefixChars}},
          {<<ModeOf(x[1]), x[2]>> :
              x \in {y \in ps : y[2] # Null /\ ModeOf(y[1]) \in PrefixChars}})

\* S2S_BUFSIZE of UnrealProtocol and the max_modes_per_msg that mode() hands
\* to wrap_modes.
S2S_BUFSIZE == 427
MaxModesPerMsg == 12

\* The length of a mode string as join_modes writes it: the sign, one
\* letter per mode, and a space and the argument for each mode that has one.
RECURSIVE ArgsLen(_)
ArgsLen(ms) ==
    IF ms = << >> THEN 0
    ELSE (IF Head(ms)[2] = Null THEN 0 ELSE 1 + Len(Head(ms)[2])) + ArgsLen(Tail(ms))

BodyLen(ms) == IF ms = << >> THEN 0 ELSE 1 + Len(ms) + ArgsLen(ms)

\* wrap_modes(modes, limit, max_modes_per_msg): the modes in their order,
\* cut into mode strings of at most max_modes_per_msg modes and at most
\* limit characters each, each string filled as far as both allow.  cur is
\* the string being filled and out the strings closed so far.  (A single
\* mode longer than limit fits no line; none of the model is that long.)
RECURSIVE wrap_modes(_, _, _, _, _)
wrap_modes(modes, limit, max_modes_per_msg, cur, out) ==
    IF modes = << >> THEN (IF cur = << >> THEN out ELSE Append(out, cur))
    ELSE LET next == Append(cur, Head(modes)) IN
         IF Len(next) <= max_modes_per_msg /\ BodyLen(next) <= limit
         THEN wrap_modes(Tail(modes), limit, max_modes_per_msg, next, out)
         ELSE IF cur = << >>
         THEN wrap_modes(Tail(modes), limit, max_modes_per_msg, << >>, out)
         ELSE wrap_modes(modes, limit, max_modes_per_msg, << >>, Append(out, cur))

\* Faulty variant of handle_mode: the TS of a line is taken from any sender.
handle_mode_anysender(st, numeric, channel, parsedmodes, lastarg, t) ==
    LET st1 == [st EXCEPT !.channels = Touch(@, channel, t)]
        st2 == IF parsedmodes # << >>
               THEN [st1 EXCEPT !.channels[channel] = apply_modes(@, ParsedModes(parsedmodes))]
               ELSE st1
        st3 == IF lastarg > 0
               THEN [st2 EXCEPT !.channels[channel] = updateTS(@, lastarg, Modes({}, {}))]
               ELSE st2
    IN  IF parsedmodes # << >> /\ parsedmodes[1][1] = "+&"
        THEN [Result(st1, "none", FALSE) EXCEPT
                !.our_ts = st1.channels[channel].ts,
                !.ts = IF lastarg < 0 THEN 0 ELSE lastarg]
        ELSE [Result(st3, "none", TRUE) EXCEPT
                !.target = channel, !.our_ts = st1.channels[channel].ts,
                !.ts = IF lastarg < 0 THEN 0 ELSE lastarg]

\* Faulty variant of handle_mode: a bounce is treated as any other line.
handle_mode_nobounce(st, numeric, channel, parsedmodes, lastarg, t) ==
    LET st1 == [st EXCEPT !.channels = Touch(@, channel, t)]
        st2 == IF parsedmodes # << >>
               THEN [st1 EXCEPT !.channels[channel] = apply_modes(@, ParsedModes(parsedmodes))]
               ELSE st1
        st3 == IF numeric \in DOMAIN st.servers /\ lastarg > 0
               THEN [st2 EXCEPT !.channels[channel] = updateTS(@, lastarg, Modes({}, {}))]
               ELSE st2
    IN  [Result(st3, "none", TRUE) EXCEPT
            !.target = channel, !.our_ts = st1.channels[channel].ts,
            !.ts = IF lastarg < 0 THEN 0 ELSE lastarg]

\* handle_mode(numeric, 'MODE', [channel, modes..., ts?]) on a channel.  The
\* channel is looked up first (and so created if unknown); a list headed by
\* '+&' is a bounce and ends the handler with no payload; else the modes are
\* applied and, from a server with a numeric last argument above 0, the TS
\* is reconciled.  lastarg is int(args[-1]), or -1 if that is no number.
handle_mode(st, numeric, channel, parsedmodes, lastarg, t) ==
    LET st1 == [st EXCEPT !.channels = Touch(@, channel, t)]
        st2 == IF parsedmodes # << >>
               THEN [st1 EXCEPT !.channels[channel] = apply_modes(@, ParsedModes(parsedmodes))]
               ELSE st1
        st3 == IF numeric \in DOMAIN st.servers /\ lastarg > 0
               THEN [st2 EXCEPT !.channels[channel] = updateTS(@, lastarg, Modes({}, {}))]
               ELSE st2
    IN  IF parsedmodes # << >> /\ parsedmodes[1][1] = "+&"
        THEN [Result(st1, "none", FALSE) EXCEPT
                !.our_ts = st1.channels[channel].ts,
                !.ts = IF lastarg < 0 THEN 0 ELSE lastarg]
        ELSE [Result(st3, "none", TRUE) EXCEPT
                !.target = channel, !.our_ts = st1.channels[channel].ts,
                !.ts = IF lastarg < 0 THEN 0 ELSE lastarg]

to_lower(name) == CASE name = "#C" -> "#c" [] OTHER -> name

\* handle_part(source, 'PART', [channel]): the user is taken out of the
\* channel, and the channel is deleted if that left it empty and it is not
\* permanent.
handle_part(st, source, chanarg, t) ==
    LET channel == to_lower(chanarg)
        chs1 == Touch(st.channels, channel, t)
        chs2 == [chs1 EXCEPT ![channel] = remove_user(@, source)]
        us   == IF source \in DOMAIN st.users
                THEN [st.users EXCEPT ![source].channels = @ \ {channel}]
                ELSE st.users
        chs3 == IF ~(chs2[channel].users # {} \/ IsPermanent(chs2[channel]))
                THEN Drop(chs2, channel) ELSE chs2
    IN  Result(St(st.servers, us, chs3), "none", TRUE)

\* handle_kick: the kicked user, resolved by _get_UID, is parted.
handle_kick(st, chanarg, target, t) ==
    handle_part(st, get_UID(st, target), chanarg, t)

\* handle_quit: self._remove_client(numeric).
handle_quit(st, numeric) == Result(remove_client(st, numeric), "none", TRUE)

\* handle_kill: the target is removed if it is still a user.
handle_kill(st, killed) ==
    IF killed \in DOMAIN st.users
    THEN Result(remove_client(st, killed), "none", TRUE)
    ELSE Result(st, "none", TRUE)

\* UnrealProtocol.handle_ping: a PING of the uplink is answered with a PONG
\* that goes past the send queue; nothing is returned.
handle_ping(st, numeric, up) ==
    IF numeric = up
    THEN [Result(st, "none", FALSE) EXCEPT !.out = << [cmd |-> "PONG"] >>]
    ELSE Result(st, "none", FALSE)

\* UnrealProtocol.handle_eos: returns an empty payload, nothing else.
handle_eos(st) == Result(st, "none", TRUE)

\* hook_map of UnrealProtocol, for the commands of the model.
hook_map(command) ==
    CASE command = "EOS" -> "ENDBURST"
      [] command = "SJOIN" -> "JOIN"
      [] command = "SVSKILL" -> "KILL"
      [] OTHER -> command

\* The commands UnrealProtocol has a handle_<command> method for, among
\* those of the model, and what getattr(self, 'handle_' + command.lower())
\* (sender, command, args) does.  A QUIT whose sender is no user fails in
\* _remove_client; a KILL reads args[1] after the removal.
Handled == {"uid", "quit", "kill", "ping", "eos"}

CallHandler(st, sender, command, args, up) ==
    CASE Lower(command) = "uid" ->
            IF Len(args) < 2 THEN Result(st, "IndexError", FALSE)
            ELSE handle_uid(st, sender, args[1], args[2])
      [] Lower(command) = "quit" ->
            IF sender \notin DOMAIN st.users THEN Result(st, "KeyError", FALSE)
            ELSE handle_quit(st, sender)
      [] Lower(command) = "kill" ->
            IF Len(args) < 1 THEN Result(st, "IndexError", FALSE)
            ELSE IF Len(args) < 2
            THEN [handle_kill(st, args[1]) EXCEPT !.err = "IndexError", !.ret = FALSE]
            ELSE handle_kill(st, args[1])
      [] Lower(command) = "ping" -> handle_ping(st, sender, up)
      [] Lower(command) = "eos" -> handle_eos(st)
      [] OTHER -> Result(st, "none", FALSE)

\* What handle_events made of a line: the sender and the command it found,
\* the arguments left for the handler, whether a handler was called, and
\* the handler's outcome (or the exception that ended handle_events).
Dispatched(sender, command, args, called, r) ==
    [sender |-> sender, command |-> command, args |-> args, called |-> called, r |-> r]

\* Faulty variant of handle_events: an ENCAP line is handed on as it is.
handle_events_noencap(st, line, up) ==
    LET first == line.toks[1]
        sender_sid == get_SID(st, first)
        sender_uid == get_UID(st, first)
        known  == sender_sid \in DOMAIN st.servers \/ sender_uid \in DOMAIN st.users
        sender == IF sender_sid \in DOMAIN st.servers THEN sender_sid
                  ELSE IF sender_uid \in DOMAIN st.users THEN sender_uid
                  ELSE IF ~line.prefixed THEN up
                  ELSE first
        args0  == IF ~known /\ ~line.prefixed THEN <<up>> \o line.toks ELSE line.toks
    IN  IF is_internal_client(st, sender) \/ is_internal_server(st, sender)
        THEN Dispatched(sender, Null, NoSeq, FALSE, Result(st, "UnboundLocalError", FALSE))
        ELSE IF Len(args0) < 2
        THEN Dispatched(sender, Null, NoSeq, FALSE, Result(st, "IndexError", FALSE))
        ELSE LET command == Upper(args0[2])
                 args    == SubSeq(args0, 3, Len(args0))
             IN  IF Lower(command) \in Handled
                 THEN Dispatched(sender, command, args, TRUE,
                                 CallHandler(st, sender, command, args, up))
                 ELSE Dispatched(sender, command, args, FALSE, Result(st, "none", FALSE))

\* handle_events(data).  The first token, with its ':' taken off, is looked
\* up as a server and as a user; if it is neither and the line had no ':'
\* the uplink becomes the sender and is put in front of the arguments.  A
\* sender of ours ends the dispatch at the log call, which reads the local
\* variable command before anything was assigned to it.  The command is
\* the next token in upper case; for ENCAP it is the token after the target
\* mask, and the arguments start after it.  The handler, if the class has
\* one, is called with the sender, the command and the arguments.
handle_events(st, line, up) ==
    LET first == line.toks[1]
        sender_sid == get_SID(st, first)
        sender_uid == get_UID(st, first)
        known  == sender_sid \in DOMAIN st.servers \/ sender_uid \in DOMAIN st.users
        sender == IF sender_sid \in DOMAIN st.servers THEN sender_sid
                  ELSE IF sender_uid \in DOMAIN st.users THEN sender_uid
                  ELSE IF ~line.prefixed THEN up
                  ELSE first
        args0  == IF ~known /\ ~line.prefixed THEN <<up>> \o line.toks ELSE line.toks
    IN  IF is_internal_client(st, sender) \/ is_internal_server(st, sender)
        THEN Dispatched(sender, Null, NoSeq, FALSE, Result(st, "UnboundLocalError", FALSE))
        ELSE IF Len(args0) < 2
        THEN Dispatched(sender, Null, NoSeq, FALSE, Result(st, "IndexError", FALSE))
        ELSE LET raw_command == Upper(args0[2])
                 args1   == SubSeq(args0, 3, Len(args0))
                 encap   == raw_command = "ENCAP"
                 command == IF encap /\ Len(args1) >= 2 THEN args1[2] ELSE raw_command
                 args    == IF encap THEN SubSeq(args1, 3, Len(args1)) ELSE args1
             IN  IF encap /\ Len(args1) < 2
                 THEN Dispatched(sender, Null, NoSeq, FALSE, Result(st, "IndexError", FALSE))
                 ELSE IF Lower(command) \in Handled
                 THEN Dispatched(sender, command, args, TRUE,
                                 CallHandler(st, sender, command, args, up))
                 ELSE Dispatched(sender, command, args, FALSE, Result(st, "none", FALSE))

\* ------------------------------------------------------ ngIRCd: inbound
\* handle_server: self.servers[servername] = Server(servername, servername, ...).
ng_handle_server(st, servername) ==
    Result([st EXCEPT !.servers = Put(@, Lower(servername),
                                      Server(Lower(servername), Lower(servername), FALSE))],
           "none", uplink # Null)

\* handle_nick: the user is stored under a fresh pseudo-UID with the sender
\* as its server.
ng_handle_nick(st, source, nick, n) ==
    Result([st EXCEPT !.users = Put(@, next_uid(nick, n), User(nick, source))],
           "none", FALSE)

\* handle_ping(source): a PING of the uplink is answered with a PONG that
\* goes past the send queue, and the first such PING (has_eob not yet set)
\* returns {'parse_as': 'ENDBURST'}; the handler then also sets has_eob and
\* the connected event.
ng_handle_ping(st, source, up, eob) ==
    IF source = up
    THEN [Result(st, "none", ~eob) EXCEPT
            !.hook = IF ~eob THEN "ENDBURST" ELSE Null,
            !.out = << [cmd |-> "PONG"] >>]
    ELSE Result(st, "none", FALSE)

\* ------------------------------------------------------------ tokenizer
\* A token is the sequence of its characters; a line's tokens are what
\* data.split(" ") gives, so no token holds a space, and a token is empty
\* where two spaces meet.
TokChars == {":", "a"}
Tokens == UNION {[1..n -> TokChars] : n \in 0..MaxTokLen}
TokenLists == UNION {[1..n -> Tokens] : n \in 1..MaxToks}

\* A call of a pure function: which one, its argument, its result and the
\* exception it raised.
Calc(op, arg, res, err) == [op |-> op, arg |-> arg, res |-> res, err |-> err]
NoCalc == Calc("none", NoSeq, NoSeq, "none")

\* str.startswith(':') and ' '.join(tokens).
startswith_colon(tok) == tok # << >> /\ tok[1] = ":"

RECURSIVE join_spaces(_)
join_spaces(toks) ==
    IF toks = << >> THEN << >>
    ELSE IF Len(toks) = 1 THEN toks[1]
    ELSE toks[1] \o <<" ">> \o join_spaces(Tail(toks))

\* The loop of parse_args from index idx (the first token has index 1
\* here, 0 in the source) with the arguments collected so far.
RECURSIVE parse_args_from(_, _, _, _)
parse_args_from(args, idx, real_args, first) ==
    IF idx > Len(args) THEN real_args
    ELSE IF startswith_colon(args[idx]) /\ idx # first
    THEN Append(real_args, Tail(join_spaces(SubSeq(args, idx, Len(args)))))
    ELSE parse_args_from(args, idx + 1, Append(real_args, args[idx]), first)

\* Faulty variant of parse_args: the first token may start the trailing
\* argument too.
parse_args_anyidx(args) == parse_args_from(args, 1, << >>, 0)

\* parse_args(args) on a list of tokens.
parse_args(args) == parse_args_from(args, 1, << >>, 1)

\* str.split(':', 1): the text before the first ':' and the text after it,
\* or the text alone when it holds no ':'.
split_colon(tok) ==
    IF \E i \in DOMAIN tok : tok[i] = ":"
    THEN LET i == CHOOSE i \in DOMAIN tok :
                     tok[i] = ":" /\ \A j \in 1..(i - 1) : tok[j] # ":"
         IN  <<SubSeq(tok, 1, i - 1), SubSeq(tok, i + 1, Len(tok))>>
    ELSE <<tok>>

\* str.lstrip(':').
RECURSIVE lstrip_colon(_)
lstrip_colon(tok) == IF startswith_colon(tok) THEN lstrip_colon(Tail(tok)) ELSE tok

\* Faulty variant of parse_prefixed_args: every leading ':' of the first
\* argument is taken off.
parse_prefixed_args_lstrip(args) ==
    LET real_args == parse_args(args) IN
    Calc("parse_prefixed_args", args,
         [real_args EXCEPT ![1] = lstrip_colon(real_args[1])], "none")

\* parse_prefixed_args(args): parse_args, then the first argument becomes
\* the second part of its split(':', 1); IndexError when there is none.
parse_prefixed_args(args) ==
    LET real_args == parse_args(args)
        parts     == split_colon(real_args[1])
    IN  IF Len(parts) < 2 THEN Calc("parse_prefixed_args", args, real_args, "IndexError")
        ELSE Calc("parse_prefixed_args", args, [real_args EXCEPT ![1] = parts[2]], "none")

\* ------------------------------------------------------------ IP addresses
\* Texts are sequences of characters, packed addresses sequences of bytes.
Digits == <<"0", "1", "2", "3", "4", "5", "6", "7", "8", "9", "a", "b", "c", "d", "e", "f">>

\* The numeral of n to the base, without leading zeros.
RECURSIVE Numeral(_, _)
Numeral(n, base) ==
    IF n < base THEN <<Digits[n + 1]>>
    ELSE Numeral(n \div base, base) \o <<Digits[(n % base) + 1]>>

\* The packed addresses of the universe: four octets, and eight 16-bit
\* groups as sixteen bytes.
Octets == {0, 127}
Groups == {0, 1}
Packed4 == [1..4 -> Octets]
Packed6 == {[i \in 1..16 |-> IF (i % 2) = 1 THEN w[(i + 1) \div 2] \div 256
                                            ELSE w[i \div 2] % 256] :
               w \in [1..8 -> Groups]}

\* socket.inet_ntop(AF_INET, b): the dotted quad.
inet_ntop4(b) ==
    Numeral(b[1], 10) \o <<".">> \o Numeral(b[2], 10) \o <<".">>
        \o Numeral(b[3], 10) \o <<".">> \o Numeral(b[4], 10)

\* socket.inet_ntop(AF_INET6, b): the groups in hexadecimal, the first of
\* the longest runs of two or more zero groups written as '::', and the
\* last 32 bits as a dotted quad for an IPv4-compatible or IPv4-mapped
\* address.
Words(b) == [i \in 1..8 |-> (b[(2 * i) - 1] * 256) + b[2 * i]]

RECURSIVE RunLen(_, _)
RunLen(w, i) == IF i > 8 \/ w[i] # 0 THEN 0 ELSE 1 + RunLen(w, i + 1)

BestRun(w) ==
    LET starts == {i \in 1..8 : RunLen(w, i) >= 2 /\ (i = 1 \/ w[i - 1] # 0)} IN
    IF starts = {} THEN <<0, 0>>
    ELSE LET bs == CHOOSE i \in starts :
                       \A j \in starts : RunLen(w, j) < RunLen(w, i)
                                          \/ (RunLen(w, j) = RunLen(w, i) /\ i <= j)
         IN  <<bs, RunLen(w, bs)>>

RECURSIVE Ntop6From(_, _, _, _, _)
Ntop6From(b, w, i, bs, bl) ==
    IF i > 8 THEN (IF bl > 0 /\ bs + bl = 9 THEN <<":">> ELSE << >>)
    ELSE IF bl > 0 /\ i >= bs /\ i < bs + bl
    THEN (IF i = bs THEN <<":">> ELSE << >>) \o Ntop6From(b, w, i + 1, bs, bl)
    ELSE (IF i # 1 THEN <<":">> ELSE << >>)
         \o (IF i = 7 /\ bs = 1
                 /\ (bl = 6 \/ (bl = 7 /\ w[8] # 1) \/ (bl = 5 /\ w[6] = 65535))
              THEN inet_ntop4(SubSeq(b, 13, 16))
              ELSE Numeral(w[i], 16) \o Ntop6From(b, w, i + 1, bs, bl))

inet_ntop6(b) ==
    LET w == Words(b) IN Ntop6From(b, w, 1, BestRun(w)[1], BestRun(w)[2])

\* The address texts that are handed to spawn_client: the text of every
\* packed address of the universe.
IpTexts == {inet_ntop4(b) : b \in Packed4} \cup {inet_ntop6(b) : b \in Packed6}

\* socket.inet_pton on these texts, AF_INET tried first: the packed
\* address whose text it is; the empty sequence stands for OSError.
inet_pton(ip) ==
    IF \E b \in Packed4 : inet_ntop4(b) = ip
    THEN CHOOSE b \in Packed4 : inet_ntop4(b) = ip
    ELSE IF \E b \in Packed6 : inet_ntop6(b) = ip
    THEN CHOOSE b \in Packed6 : inet_ntop6(b) = ip
    ELSE << >>

\* Base64: three bytes to four characters, '=' padding.
B64 == <<"A", "B", "C", "D", "E", "F", "G", "H", "I", "J", "K", "L", "M", "N", "O", "P",
         "Q", "R", "S", "T", "U", "V", "W", "X", "Y", "Z", "a", "b", "c", "d", "e", "f",
         "g", "h", "i", "j", "k", "l", "m", "n", "o", "p", "q", "r", "s", "t", "u", "v",
         "w", "x", "y", "z", "0", "1", "2", "3", "4", "5", "6", "7", "8", "9", "+", "/">>

RECURSIVE b64encode(_)
b64encode(b) ==
    IF b = << >> THEN << >>
    ELSE IF Len(b) = 1
    THEN <<B64[(b[1] \div 4) + 1], B64[((b[1] % 4) * 16) + 1], "=", "=">>
    ELSE IF Len(b) = 2
    THEN <<B64[(b[1] \div 4) + 1], B64[((b[1] % 4) * 16) + (b[2] \div 16) + 1],
           B64[((b[2] % 16) * 4) + 1], "=">>
    ELSE <<B64[(b[1] \div 4) + 1], B64[((b[1] % 4) * 16) + (b[2] \div 16) + 1],
           B64[((b[2] % 16) * 4) + (b[3] \div 64) + 1], B64[(b[3] % 64) + 1]>>
         \o b64encode(SubSeq(b, 4, Len(b)))

B64Value(c) == (CHOOSE i \in DOMAIN B64 : B64[i] = c) - 1

RECURSIVE b64decode(_)
b64decode(t) ==
    IF Len(t) < 4 THEN << >>
    ELSE LET v1 == B64Value(t[1])
             v2 == B64Value(t[2])
         IN  IF t[3] = "=" THEN <<(v1 * 4) + (v2 \div 16)>>
             ELSE LET v3 == B64Value(t[3]) IN
                  IF t[4] = "="
                  THEN <<(v1 * 4) + (v2 \div 16), ((v2 % 16) * 16) + (v3 \div 4)>>
                  ELSE <<(v1 * 4) + (v2 \div 16), ((v2 % 16) * 16) + (v3 \div 4),
                         ((v3 % 4) * 64) + B64Value(t[4])>>
                       \o b64decode(SubSeq(t, 5, Len(t)))

\* spawn_client: the ip field of the UID line it sends.  '0.0.0.0' goes out
\* as '*'; any other address is packed and written in Base64; ValueError
\* for a text that is no address.
encode_ip(ip) ==
    IF ip = <<"0", ".", "0", ".", "0", ".", "0">>
    THEN Calc("encode_ip", ip, <<"*">>, "none")
    ELSE IF inet_pton(ip) = << >> THEN Calc("encode_ip", ip, << >>, "ValueError")
    ELSE Calc("encode_ip", ip, b64encode(inet_pton(ip)), "none")

\* Faulty variant of decode_ip: '*' is decoded like any other field.
decode_ip_nostar(raw_ip) ==
    LET b == b64decode(raw_ip) IN
    IF Len(b) = 4 THEN inet_ntop4(b)
    ELSE IF Len(b) = 16 THEN inet_ntop6(b) ELSE << >>

\* handle_uid: the address it stores for the ip field of a UID line.  '*'
\* is '0.0.0.0'; else the field is decoded from Base64 and read as an IPv4
\* address, or, when it has not four bytes, as an IPv6 address, whose text
\* is given a leading '0' when it begins with ':'.
decode_ip(raw_ip) ==
    IF raw_ip = <<"*">> THEN <<"0", ".", "0", ".", "0", ".", "0">>
    ELSE LET b == b64decode(raw_ip) IN
         IF Len(b) = 4 THEN inet_ntop4(b)
         ELSE LET ip == inet_ntop6(b) IN
              IF startswith_colon(ip) THEN <<"0">> \o ip ELSE ip

\* ------------------------------------------------------------ 005 lines
\* A token of a 005 line is <<key, value>>, the value None when the token
\* holds no '='.  parse_isupport(args): key -> value, '' for a token
\* without '=', a later token of a key replacing an earlier one.
RECURSIVE parse_isupport(_)
parse_isupport(args) ==
    IF args = << >> THEN NoMap
    ELSE LET cap  == args[Len(args)]
             rest == parse_isupport(SubSeq(args, 1, Len(args) - 1))
         IN  Put(rest, cap[1], IF cap[2] = Null THEN "" ELSE cap[2])

\* str.split(',') on the CHANMODES values of the universe.
SplitCommas(v) ==
    CASE v = "beI,k,l,imn" -> <<"beI", "k", "l", "imn">>
      [] v = "b,k,l" -> <<"b", "k", "l">>
      [] OTHER -> <<v>>

\* parse_isupport_prefixes on the PREFIX values of the universe.
parse_isupport_prefixes(v) ==
    CASE v = "(ov)@+" -> ("o" :> "@" @@ "v" :> "+")
      [] v = "(qaohv)~&@%+" -> ("q" :> "~" @@ "a" :> "&" @@ "o" :> "@" @@ "h" :> "%" @@ "v" :> "+")
      [] OTHER -> NoMap

\* int() on the NICKLEN values of the universe.
ToInt(v) == CASE v = "21" -> 21 [] v = "9" -> 9 [] OTHER -> 0

\* COMMON_PREFIXMODES: the names given to prefix mode letters.
PrefixModeName(char) ==
    CASE char = "q" -> "owner" [] char = "a" -> "admin" [] char = "o" -> "op"
      [] char = "h" -> "halfop" [] char = "v" -> "voice" [] OTHER -> char

\* The 005 state after __init__: the handling is off
\* (IRCCommonProtocol.__init__), NgIRCdProtocol.__init__ sets the case
\* mapping and does not turn the handling on.
Isupport(d) ==
    [use_builtin_005_handling |-> FALSE,
     caps |-> NoMap, cmodes |-> NoMap, prefixmodes |-> ("o" :> "@" @@ "v" :> "+"),
     casemapping |-> "rfc1459", maxnicklen |-> 30]

\* handle_005(source, '005', args) on the tokens args[1:-1]: nothing
\* unless the builtin handling is on; else the tokens join _caps and the
\* tokens of known keys set the tables.  err is the exception raised
\* (the unpacking of a CHANMODES value without four classes, the
\* assertion on an empty NICKLEN).
handle_005(is, args) ==
    IF ~is.use_builtin_005_handling THEN [is |-> is, err |-> "none"]
    ELSE LET newcaps == parse_isupport(args)
             has(k)  == k \in DOMAIN newcaps
             is1 == [is EXCEPT !.caps = newcaps @@ @]
             cm  == IF has("CHANMODES") THEN SplitCommas(newcaps["CHANMODES"]) ELSE << >>
             is2 == IF has("CHANMODES") /\ Len(cm) = 4
                    THEN [is1 EXCEPT !.cmodes =
                             ("*A" :> cm[1] @@ "*B" :> cm[2] @@ "*C" :> cm[3] @@ "*D" :> cm[4]) @@ @]
                    ELSE is1
             is3 == IF has("CASEMAPPING")
                    THEN [is2 EXCEPT !.casemapping = newcaps["CASEMAPPING"]] ELSE is2
             pm  == IF has("PREFIX") THEN parse_isupport_prefixes(newcaps["PREFIX"]) ELSE NoMap
             is4 == IF has("PREFIX")
                    THEN [is3 EXCEPT
                            !.prefixmodes = pm,
                            !.cmodes = @ @@ [n \in {PrefixModeName(c) : c \in DOMAIN pm} |->
                                               CHOOSE c \in DOMAIN pm : PrefixModeName(c) = n]]
                    ELSE is3
             is5 == IF has("EXCEPTS")
                    THEN [is4 EXCEPT !.cmodes =
                            ("banexception" :> (IF newcaps["EXCEPTS"] = "" THEN "e"
                                                ELSE newcaps["EXCEPTS"])) @@ @]
                    ELSE is4
             is6 == IF has("NICKLEN") /\ newcaps["NICKLEN"] # ""
                    THEN [is5 EXCEPT !.maxnicklen = ToInt(newcaps["NICKLEN"])] ELSE is5
         IN  IF has("CHANMODES") /\ Len(cm) # 4 THEN [is |-> is1, err |-> "ValueError"]
             ELSE IF has("NICKLEN") /\ newcaps["NICKLEN"] = ""
             THEN [is |-> is5, err |-> "AssertionError"]
             ELSE [is |-> is6, err |-> "none"]

\* ------------------------------------------------------- public operations
\* NgIRCdProtocol.spawn_client: ValueError unless the server is internal;
\* the user is stored under a fresh pseudo-UID, added to the server's user
\* set, and a NICK line is sent.
ng_spawn_client(st, nick, server, n) ==
    IF ~is_internal_server(st, server) THEN Result(st, "ValueError", FALSE)
    ELSE [Result(St([st.servers EXCEPT ![server].users = @ \cup {next_uid(nick, n)}],
                    Put(st.users, next_uid(nick, n), User(nick, server)),
                    st.channels),
                 "none", FALSE)
            EXCEPT !.out = << [cmd |-> "NICK"] >>]

\* UnrealProtocol.spawn_client for the default ip: ValueError unless the
\* server is internal; else the user is stored under the next UID and added
\* to the server's user set.
spawn_client(st, nick, server, uid) ==
    IF ~is_internal_server(st, server) THEN Result(st, "ValueError", FALSE)
    ELSE Result(St([st.servers EXCEPT ![server].users = @ \cup {uid}],
                   Put(st.users, uid, User(nick, server)),
                   st.channels),
                "none", TRUE)

\* UnrealProtocol.spawn_client with an ip, in the order of its statements:
\* the server test, the user stored and added to the server's user set,
\* the address encoded (ValueError for a text that is no address), and
\* the UID line sent.
spawn_client_ip(st, nick, server, uid, ip) ==
    IF ~is_internal_server(st, server) THEN Result(st, "ValueError", FALSE)
    ELSE LET st1 == St([st.servers EXCEPT ![server].users = @ \cup {uid}],
                       Put(st.users, uid, User(nick, server)),
                       st.channels)
             encoded_ip == encode_ip(ip)
         IN  IF encoded_ip.err # "none" THEN Result(st1, encoded_ip.err, FALSE)
             ELSE [Result(st1, "none", TRUE) EXCEPT
                      !.out = << [cmd |-> "UID", ip |-> encoded_ip.res] >>]

\* UnrealProtocol.sjoin(server, channel, users) with ts and modes left at
\* their defaults: a user that is no key of the user map is skipped when
\* the channel sets are updated (KeyError caught) but is still added to the
\* channel's user set.
sjoin(st, channel, items, t) ==
    LET chs0 == Touch(st.channels, channel, t)
        uids == {it[2] : it \in items}
        chg  == Modes(chs0[channel].modes,
                      UNION {{<<m, it[2]>> : m \in it[1]} : it \in items})
        us   == [u \in DOMAIN st.users |->
                    IF u \in uids THEN [st.users[u] EXCEPT !.channels = @ \cup {channel}]
                    ELSE st.users[u]]
        chs1 == [chs0 EXCEPT ![channel].users = @ \cup uids]
    IN  Result(St(st.servers, us,
                  [chs1 EXCEPT ![channel] = updateTS(@, chs0[channel].ts, chg)]),
               "none", FALSE)

\* _expandPUID(uid): the nick of a known user whose UID holds '@'.
IsPuid(uid) == \E nick \in Nicks, n \in 0..MaxPuid : uid = next_uid(nick, n)
expandPUID(st, uid) ==
    IF uid \in DOMAIN st.users /\ IsPuid(uid) THEN st.users[uid].nick ELSE uid

\* A line handed to _send_with_prefix: ':<source> <cmd> <target> ...', the
\* source with its PUID expanded.
OutLine(st, source, cmd, target) ==
    [source |-> expandPUID(st, source), cmd |-> cmd, target |-> target]

\* IRCS2SProtocol.part(client, channel): LookupError unless the client is
\* ours; a PART line is sent and handle_part does the rest.
part(st, client, channel, t) ==
    IF ~is_internal_client(st, client) THEN Result(st, "LookupError", FALSE)
    ELSE [handle_part(st, client, channel, t) EXCEPT
             !.ret = FALSE,
             !.out = << OutLine(st, client, "PART", to_lower(channel)) >>]

\* IRCS2SProtocol.quit(numeric, reason): a QUIT line is sent and the client
\* is removed; LookupError unless the client is ours.
quit(st, numeric) ==
    IF is_internal_client(st, numeric)
    THEN [Result(remove_client(st, numeric), "none", FALSE) EXCEPT
             !.out = << OutLine(st, numeric, "QUIT", Null) >>]
    ELSE Result(st, "LookupError", FALSE)

\* IRCS2SProtocol.message(numeric, target, text): LookupError unless the
\* client is ours; a PRIVMSG line to the target, its PUID expanded.
message(st, numeric, target) ==
    IF ~is_internal_client(st, numeric) THEN Result(st, "LookupError", FALSE)
    ELSE [Result(st, "none", FALSE) EXCEPT
             !.out = << OutLine(st, numeric, "PRIVMSG", expandPUID(st, target)) >>]

\* IRCS2SProtocol.notice(numeric, target, text): as message, but a server
\* of ours may send it too.
notice(st, numeric, target) ==
    IF ~is_internal_client(st, numeric) /\ ~is_internal_server(st, numeric)
    THEN Result(st, "LookupError", FALSE)
    ELSE [Result(st, "none", FALSE) EXCEPT
             !.out = << OutLine(st, numeric, "NOTICE", expandPUID(st, target)) >>]

\* UnrealProtocol.join(client, channel): LookupError unless the client is
\* ours; a JOIN line is sent, and the client and the channel are added to
\* each other's sets.
join(st, client, channel, t) ==
    IF ~is_internal_client(st, client) THEN Result(st, "LookupError", FALSE)
    ELSE LET chs == Touch(st.channels, channel, t) IN
         [Result(St(st.servers,
                    [st.users EXCEPT ![client].channels = @ \cup {channel}],
                    [chs EXCEPT ![channel].users = @ \cup {client}]),
                 "none", FALSE)
             EXCEPT !.target = channel,
                    !.out = << OutLine(st, client, "JOIN", channel) >>]

\* NgIRCdProtocol.join(client, channel): returns at once.
ng_join(st, client, channel) ==
    [Result(st, "none", FALSE) EXCEPT !.target = channel]

\* Faulty variant of topic: the source is not looked at.
topic_nocheck(st, numeric, target, text, t) ==
    [Result([st EXCEPT !.channels =
                [Touch(st.channels, target, t) EXCEPT ![target].topic = text]],
            "none", FALSE)
        EXCEPT !.out = << OutLine(st, numeric, "TOPIC", target) >>]

\* IRCS2SProtocol.topic(numeric, target, text): LookupError unless the
\* client is ours; a TOPIC line is sent and the channel's topic is set.
topic(st, numeric, target, text, t) ==
    IF ~is_internal_client(st, numeric) THEN Result(st, "LookupError", FALSE)
    ELSE [Result([st EXCEPT !.channels =
                     [Touch(st.channels, target, t) EXCEPT ![target].topic = text]],
                 "none", FALSE)
             EXCEPT !.out = << OutLine(st, numeric, "TOPIC", target) >>]

\* An outbound MODE line ':<source> MODE <target> <modestring> <ts>' and its
\* length in characters.
ModeLine(source, target, body, ts) ==
    [source |-> source, cmd |-> "MODE", target |-> target, body |-> body, ts |-> ts]

LineLen(l) ==
    1 + Len(l.source) + 1 + 4 + 1 + Len(l.target) + 1 + BodyLen(l.body)
      + 1 + Len(ToString(l.ts))

\* Faulty variant of mode(): the line budget leaves no room for the source
\* prefix.
mode_noprefix(st, numeric, target, modes, ts, t) ==
    IF ~is_internal_client(st, numeric) /\ ~is_internal_server(st, numeric)
    THEN Result(st, "LookupError", FALSE)
    ELSE LET chs      == Touch(st.channels, target, t)
             st1      == [st EXCEPT !.channels =
                              [chs EXCEPT ![target] = apply_modes(@, ParsedModes(modes))]]
             expanded == [i \in DOMAIN modes |->
                              IF ModeOf(modes[i][1]) \in PrefixChars
                              THEN <<modes[i][1], expandPUID(st1, modes[i][2])>>
                              ELSE modes[i]]
             ts1      == IF ts # 0 THEN ts ELSE st1.channels[target].ts
             bufsize  == S2S_BUFSIZE - 7 - Len(ToString(ts1)) - Len(target)
             strings  == wrap_modes(expanded, bufsize, MaxModesPerMsg, << >>, << >>)
         IN  [Result(st1, "none", FALSE) EXCEPT
                 !.target = target, !.ts = ts1,
                 !.out = [i \in DOMAIN strings |->
                             ModeLine(expandPUID(st1, numeric), target, strings[i], ts1)]]

\* UnrealProtocol.mode(numeric, target, modes, ts) on a channel: LookupError
\* unless numeric is ours; the modes are applied; PUIDs in prefix-mode
\* arguments are expanded; ts defaults to the channel's (0 stands for None);
\* the line budget is computed and one MODE line is sent per mode string of
\* wrap_modes.
mode(st, numeric, target, modes, ts, t) ==
    IF ~is_internal_client(st, numeric) /\ ~is_internal_server(st, numeric)
    THEN Result(st, "LookupError", FALSE)
    ELSE LET chs      == Touch(st.channels, target, t)
             st1      == [st EXCEPT !.channels =
                              [chs EXCEPT ![target] = apply_modes(@, ParsedModes(modes))]]
             expanded == [i \in DOMAIN modes |->
                              IF ModeOf(modes[i][1]) \in PrefixChars
                              THEN <<modes[i][1], expandPUID(st1, modes[i][2])>>
                              ELSE modes[i]]
             ts1      == IF ts # 0 THEN ts ELSE st1.channels[target].ts
             bufsize  == S2S_BUFSIZE - 7 - Len(ToString(ts1)) - Len(target)
                            - (IF is_internal_server(st, numeric) THEN 5 ELSE 11)
             strings  == wrap_modes(expanded, bufsize, MaxModesPerMsg, << >>, << >>)
         IN  [Result(st1, "none", FALSE) EXCEPT
                 !.target = target, !.ts = ts1,
                 !.out = [i \in DOMAIN strings |->
                             ModeLine(expandPUID(st1, numeric), target, strings[i], ts1)]]

\* ------------------------------------------------------------- user modes
\* A parsed user-mode list, as parse_modes yields it for a mode string:
\* <<sign, letter>> stands for the pair ('+x', None).
Umodes == {"x", "t"}
SignedUmodes == {"+", "-"} \X Umodes
UmodeLists == UNION {[1..n -> SignedUmodes] : n \in 1..MaxUmodes}

\* apply_modes(uid, parsedmodes): the pairs are applied in their order.
RECURSIVE apply_umodes(_, _)
apply_umodes(modes, parsed) ==
    IF parsed = << >> THEN modes
    ELSE apply_umodes(IF Head(parsed)[1] = "+" THEN modes \cup {Head(parsed)[2]}
                      ELSE modes \ {Head(parsed)[2]},
                      Tail(parsed))

InParsed(parsed, sign, letter) == \E i \in DOMAIN parsed : parsed[i] = <<sign, letter>>

\* if newhost != oldhost
HostChanged(newhost, oldhost) == newhost # oldhost

\* _check_cloak_change(uid, parsedmodes), after the modes were applied:
\* the host becomes the cloaked host when +x is in the list and the user
\* has no +t, or -t is in the list and the user has +x; else the real host
\* when -x or -t is in the list; a SETHOST hook is published if the host is
\* another than before.
check_cloak_change(r, uid, parsedmodes) ==
    LET userobj     == r.st.users[uid]
        final_modes == userobj.modes
        oldhost     == userobj.host
        set(newhost) ==
            [r EXCEPT !.st.users[uid].host = newhost,
                      !.hooks = IF HostChanged(newhost, oldhost)
                                THEN @ \cup {<<"SETHOST", uid>>} ELSE @]
    IN  IF \/ (InParsed(parsedmodes, "+", "x") /\ "t" \notin final_modes)
           \/ (InParsed(parsedmodes, "-", "t") /\ "x" \in final_modes)
        THEN set(CloakedHost)
        ELSE IF InParsed(parsedmodes, "-", "x") \/ InParsed(parsedmodes, "-", "t")
        THEN set(RealHost)
        ELSE r

\* handle_umode2(numeric, 'UMODE2', args): the modes are applied to the
\* sender (KeyError if it is no user), then the cloak check runs.  The
\* oper-status check looks for +o, which is not among the modes here.
handle_umode2(st, numeric, parsedmodes) ==
    IF numeric \notin DOMAIN st.users THEN Result(st, "KeyError", FALSE)
    ELSE check_cloak_change(
            [Result([st EXCEPT !.users[numeric].modes = apply_umodes(@, parsedmodes)],
                    "none", TRUE) EXCEPT !.target = numeric],
            numeric, parsedmodes)

\* handle_svsmode(numeric, 'SVSMODE', args): the same on the user that
\* args[0] names.
handle_svsmode(st, numeric, arg, parsedmodes) ==
    LET target == get_UID(st, arg) IN
    IF target \notin DOMAIN st.users
    THEN [Result(st, "KeyError", FALSE) EXCEPT !.target = target]
    ELSE check_cloak_change(
            [Result([st EXCEPT !.users[target].modes = apply_umodes(@, parsedmodes)],
                    "none", TRUE) EXCEPT !.target = target],
            target, parsedmodes)

\* UnrealProtocol.mode(numeric, target, modes) on a user: LookupError unless
\* numeric is ours; the modes are applied to the target (KeyError if it is
\* no user); ProtocolError unless the target is a client of ours; else a
\* UMODE2 line is sent from the target.
mode_user(st, numeric, target, modes) ==
    IF ~is_internal_client(st, numeric) /\ ~is_internal_server(st, numeric)
    THEN Result(st, "LookupError", FALSE)
    ELSE IF target \notin DOMAIN st.users
    THEN [Result(st, "KeyError", FALSE) EXCEPT !.target = target]
    ELSE LET st1 == [st EXCEPT !.users[target].modes = apply_umodes(@, modes)] IN
         IF ~is_internal_client(st1, target)
         THEN [Result(st1, "ProtocolError", FALSE) EXCEPT !.target = target]
         ELSE [Result(st1, "none", FALSE)
                 EXCEPT !.target = target,
                        !.out = << [source |-> target, cmd |-> "UMODE2", target |-> Null] >>]

\* ---------------------------------------------------------------- machine
OwnSid(d) == IF d = "unreal" THEN UnrealSid ELSE Hostname

InitLink(d) ==
    /\ dialect = d
    /\ link = "up"
    /\ sid = OwnSid(d)
    /\ uplink = Null
    /\ connected = FALSE
    /\ caps = {}
    /\ permanent = Null
    /\ puid = 0
    /\ uidn = 0
    /\ servers = (OwnSid(d) :> Server(Null, Hostname, TRUE))
    /\ users = [u \in {} |-> User(Null, Null)]
    /\ channels = [c \in {} |-> Channel(0)]
    /\ has_eob = FALSE
    /\ sendq = << >> /\ wire = << >> /\ sent = 0
    /\ networkobjects = [n \in NetNames |-> {}]
    /\ g_frame = NoCall
    /\ accesses = {}
    /\ isupport = Isupport(d)
    /\ issued = {}
    /\ passed = FALSE
    /\ last = Last("INIT", Result(Cur, "none", FALSE))

InitFor(d) == InitLink(d) /\ calc = NoCalc

Init == \E d \in Dialects : InitFor(d)

\* The maps and the outcome of a handler become the new state; a
\* ProtocolError unwinds the dispatch and closes the link.
CommitLine(op, r, arg, items) ==
    /\ servers' = r.st.servers
    /\ users' = r.st.users
    /\ channels' = r.st.channels
    /\ last' = [Last(op, r) EXCEPT
                    !.arg = arg, !.items = items,
                    !.split = IF op = "SQUIT"
                              THEN [s \in DOMAIN servers \ DOMAIN r.st.servers
                                       |-> servers[s].users]
                              ELSE NoSplit]
    /\ link' = IF r.err = "ProtocolError" THEN "dead" ELSE link

Commit(op, r) == CommitLine(op, r, Null, NoSeq)

Up(d) == link = "up" /\ dialect = d

\* Senders handle_events lets through: servers and users that are not ours.
RemoteServers == {s \in DOMAIN servers : ~servers[s].internal}
RemoteUsers == {u \in DOMAIN users : ~is_internal_client(Cur, u)}

Conf == <<dialect, sid>>

\* What the handlers of the link's maps leave alone: the registry of
\* Networks with the plugin call that walks it, and the tables 005 sets.
Aux0 == <<networkobjects, g_frame, accesses, calc, isupport, passed>>
Aux == <<Aux0, issued>>

\* The end-of-burst flag and the write side, which only the handlers that
\* send or that read the flag touch.
Io == <<has_eob, sendq, wire, sent>>

\* Clock reading int(time.time()) that stamps a channel created on first
\* reference: the latest timestamp of the model.
Now == MaxTS

\* A set walked in some order: one walk of it, or that walk reversed (the
\* walk order of a dict or set is not fixed by the handler).
RECURSIVE SeqOf(_)
SeqOf(S) == IF S = {} THEN << >>
            ELSE LET x == CHOOSE y \in S : TRUE IN <<x>> \o SeqOf(S \ {x})
Reverse(q) == [i \in 1..Len(q) |-> q[Len(q) + 1 - i]]
Walk(S, rev) == IF rev THEN Reverse(SeqOf(S)) ELSE SeqOf(S)

HostedUids == UNION {servers[s].users : s \in DOMAIN servers}

\* --------------------------------------------------- UnrealIRCd handshake
Protoctl ==
    /\ Up("unreal") /\ ~connected
    /\ \E line \in ProtoctlLines :
        /\ caps' = caps \cup line
        /\ uplink' = IF "SID" \in line THEN UplinkSid ELSE uplink
        /\ permanent' = IF "CHANMODES" \in line THEN "P" ELSE permanent
    /\ last' = Last("PROTOCTL", Result(Cur, "none", FALSE))
    /\ UNCHANGED <<dialect, link, sid, connected, puid, uidn, servers, users, channels, Io, Aux>>

\* PASS, which the uplink sends first.
Pass ==
    /\ Up("unreal")
    /\ \E pw \in Passwords :
        /\ CommitLine("PASS", handle_pass(Cur, pw), pw, NoSeq)
        /\ passed' = (passed \/ pw = RecvPass)
    /\ UNCHANGED <<Conf, networkobjects, g_frame, accesses, calc, isupport, issued, Io,
                   uplink, connected, caps, permanent, puid, uidn>>

NgPass ==
    /\ Up("ngircd")
    /\ \E pw \in Passwords, ircplus \in BOOLEAN :
        /\ CommitLine("PASS", ng_handle_pass(Cur, pw, ircplus), pw, NoSeq)
        /\ passed' = (passed \/ pw = RecvPass)
    /\ UNCHANGED <<Conf, networkobjects, g_frame, accesses, calc, isupport, issued, Io,
                   uplink, connected, caps, permanent, puid, uidn>>

\* SERVER from the uplink before the link is up: authentication.
ServerAuth ==
    /\ Up("unreal") /\ ~connected
    /\ \E pv \in ProtoVers :
        LET r == handle_server_auth(Cur, uplink, SidName(UplinkSid), pv) IN
        /\ Commit("SERVER", r)
        /\ connected' = (r.err = "none")
    /\ UNCHANGED <<dialect, sid, uplink, caps, permanent, puid, uidn, Io, Aux>>

\* SERVER otherwise: a legacy server introduction.
ServerLegacy ==
    /\ Up("unreal")
    /\ \E numeric \in RemoteServers, sname \in LegacyNames :
        /\ ~(numeric = uplink /\ ~connected)
        /\ Commit("SERVER", handle_server_legacy(Cur, numeric, sname))
    /\ UNCHANGED <<Conf, Aux, Io, uplink, connected, caps, permanent, puid, uidn>>

Sid ==
    /\ Up("unreal")
    /\ \E numeric \in RemoteServers, newsid \in RemoteSids :
        Commit("SID", handle_sid(Cur, numeric, SidName(newsid), newsid))
    /\ UNCHANGED <<Conf, Aux, Io, uplink, connected, caps, permanent, puid, uidn>>

\* The UID lines of the universe: <<nick, uid>>.
UidLines == {<<"alice", "00AAAA">>, <<"bob", "00BAAA">>}

Uid ==
    /\ Up("unreal")
    /\ \E numeric \in RemoteServers, l \in UidLines :
        CommitLine("UID", handle_uid(Cur, numeric, l[1], l[2]), l[1], NoSeq)
    /\ UNCHANGED <<Conf, Aux, Io, uplink, connected, caps, permanent, puid, uidn>>

\* UID lines with their account field and with or without +r.
UidAccount ==
    /\ Up("unreal")
    /\ \E numeric \in RemoteServers, l \in UidLines, account \in Accounts, plus_r \in BOOLEAN :
        CommitLine("UID", handle_uid_account(Cur, numeric, l[1], l[2], account, plus_r),
                   l[1], <<account>>)
    /\ UNCHANGED <<Conf, Aux, Io, uplink, connected, caps, permanent, puid, uidn>>

\* A legacy NICK introduction names its server by name.
NickLegacy ==
    /\ Up("unreal") /\ puid < MaxPuid
    /\ RemoteServers # {}
    /\ \E nick \in Nicks, sname \in LegacyNames \cup {"a.net"} :
        /\ CommitLine("NICK", handle_nick_legacy(Cur, nick, sname, puid), nick, NoSeq)
        /\ issued' = issued \cup {next_uid(nick, puid)}
    /\ puid' = puid + 1
    /\ UNCHANGED <<Conf, Aux0, Io, uplink, connected, caps, permanent, uidn>>

Join ==
    /\ Up("unreal")
    /\ \E numeric \in RemoteUsers, channel \in Chans :
        Commit("JOIN", handle_join(Cur, numeric, channel, Now))
    /\ UNCHANGED <<Conf, Aux, Io, uplink, connected, caps, permanent, puid, uidn>>

Join0 ==
    /\ Up("unreal")
    /\ \E numeric \in RemoteUsers : Commit("JOIN0", handle_join_0(Cur, numeric, Now))
    /\ UNCHANGED <<Conf, Aux, Io, uplink, connected, caps, permanent, puid, uidn>>

\* The items an SJOIN can carry and its mode strings.
SjoinPrefixes == {{}, {"@"}}
SjoinItems == SjoinPrefixes \X RemoteUids
SjoinLists ==
    {SeqOf(b) : b \in {x \in SUBSET SjoinItems : \A i, j \in x : i[2] = j[2] => i = j}}
SjoinModes == {{}, {"n"}, {"m", "P"}}

Sjoin ==
    /\ Up("unreal")
    /\ RemoteServers # {}
    /\ \E ts \in TSValues, channel \in BurstChans, simple \in SjoinModes, items \in SjoinLists :
        CommitLine("SJOIN", handle_sjoin(Cur, ts, channel, simple, items, Now),
                   channel, items)
    /\ UNCHANGED <<Conf, Aux, Io, uplink, connected, caps, permanent, puid, uidn>>

\* The channel MODE lines of the universe: the parsed lists, headed by the
\* bounce mark or not, and the last argument (no number, 0, or a TS).
ModeLists(members) ==
    {<< >>, << <<"+n", Null>> >>, << <<"+&", Null>>, <<"+m", Null>> >>}
        \cup {<< <<"+o", u>> >> : u \in members}
        \cup {<< <<"+&", Null>>, <<"+o", u>> >> : u \in members}
ModeLastArgs == {-1, 0} \cup TSValues

Mode ==
    /\ Up("unreal")
    /\ \E numeric \in RemoteServers \cup RemoteUsers, channel \in BurstChans,
          lastarg \in ModeLastArgs :
        \E parsed \in ModeLists(IF channel \in DOMAIN channels
                                 THEN channels[channel].users ELSE {}) :
            CommitLine("MODE", handle_mode(Cur, numeric, channel, parsed, lastarg, Now),
                       channel, parsed)
    /\ UNCHANGED <<Conf, Aux, Io, uplink, connected, caps, permanent, puid, uidn>>

Kick ==
    /\ Up("unreal")
    /\ RemoteServers # {}
    /\ \E channel \in Chans, target \in DOMAIN users :
        Commit("KICK", handle_kick(Cur, channel, target, Now))
    /\ UNCHANGED <<Conf, Aux, Io, uplink, connected, caps, permanent, puid, uidn>>

\* ------------------------------------------------------- ngIRCd handshake
NgServer ==
    /\ Up("ngircd")
    /\ \E sname \in NgNames :
        /\ Commit("SERVER", ng_handle_server(Cur, sname))
        /\ uplink' = IF uplink = Null THEN Lower(sname) ELSE uplink
    /\ UNCHANGED <<Conf, Aux, Io, connected, caps, permanent, puid, uidn>>

NgNick ==
    /\ Up("ngircd") /\ puid - uidn < MaxPuid
    /\ \E source \in RemoteServers, nick \in Nicks :
        /\ CommitLine("NICK", ng_handle_nick(Cur, source, nick, puid), nick, NoSeq)
        /\ issued' = issued \cup {next_uid(nick, puid)}
    /\ puid' = puid + 1
    /\ UNCHANGED <<Conf, Aux0, Io, uplink, connected, caps, permanent, uidn>>

\* The token lists of the 005 lines the uplink sends.
Lines005 ==
    { << <<"NETWORK", "ngircd-test">> >>,
      << <<"RFC2812", Null>>, <<"CASEMAPPING", "ascii">>, <<"PREFIX", "(qaohv)~&@%+">>,
         <<"CHANMODES", "beI,k,l,imn">> >>,
      << <<"NICKLEN", "21">>, <<"EXCEPTS", "e">>, <<"PENALTY", Null>> >>,
      << <<"CHANMODES", "b,k,l">> >>,
      << <<"NICKLEN", Null>> >> }

Ng005 ==
    /\ Up("ngircd")
    /\ \E source \in RemoteServers, args \in Lines005 :
        LET r == handle_005(isupport, args) IN
        /\ isupport' = r.is
        /\ last' = [Last("005", Result(Cur, r.err, FALSE)) EXCEPT
                        !.arg = source, !.items = args]
    /\ UNCHANGED <<Conf, Io, networkobjects, g_frame, accesses, calc, issued, passed, link, uplink,
                   connected, caps, permanent, puid, uidn, servers, users, channels>>

\* ------------------------------------------- inbound, common to the dialects
Part ==
    /\ link = "up"
    /\ \E source \in RemoteUsers, channel \in Chans :
        Commit("PART", handle_part(Cur, source, channel, Now))
    /\ UNCHANGED <<Conf, Aux, Io, uplink, connected, caps, permanent, puid, uidn>>

Quit ==
    /\ link = "up"
    /\ \E numeric \in RemoteUsers : Commit("QUIT", handle_quit(Cur, numeric))
    /\ UNCHANGED <<Conf, Aux, Io, uplink, connected, caps, permanent, puid, uidn>>

Kill ==
    /\ link = "up"
    /\ RemoteServers # {}
    /\ \E killed \in DOMAIN users \cup RemoteUids :
        Commit("KILL", handle_kill(Cur, killed))
    /\ UNCHANGED <<Conf, Aux, Io, uplink, connected, caps, permanent, puid, uidn>>

SquitIn ==
    /\ link = "up"
    /\ RemoteServers # {}
    /\ \E target \in SquitTargets, rev \in BOOLEAN :
        CommitLine("SQUIT", Squit(Cur, target, {}, Walk(DOMAIN servers, rev),
                                  Walk(HostedUids, rev)),
                   target, NoSeq)
    /\ UNCHANGED <<Conf, Aux, Io, uplink, connected, caps, permanent, puid, uidn>>

\* ------------------------------------------- public operations, as called
SpawnClient ==
    /\ Up("unreal") /\ uidn < MaxSpawn
    /\ \E nick \in Nicks, server \in {sid, UplinkSid} :
        LET r == spawn_client(Cur, nick, server, OwnUids[uidn + 1]) IN
        /\ Commit("spawn_client", r)
        /\ uidn' = IF r.err = "none" THEN uidn + 1 ELSE uidn
    /\ UNCHANGED <<Conf, Aux, Io, uplink, connected, caps, permanent, puid>>

PubJoin ==
    /\ Up("unreal")
    /\ \E client \in DOMAIN users, channel \in Chans :
        Commit("join", join(Cur, client, channel, Now))
    /\ UNCHANGED <<Conf, Aux, Io, uplink, connected, caps, permanent, puid, uidn>>

\* sjoin() is handed <<prefix modes, uid>> pairs by its caller.
PubSjoinItems == {{}, {"o"}} \X (RemoteUids \cup {OwnUids[1]})

PubSjoin ==
    /\ Up("unreal")
    /\ \E channel \in Chans, it \in PubSjoinItems :
        Commit("sjoin", sjoin(Cur, channel, {it}, Now))
    /\ UNCHANGED <<Conf, Aux, Io, uplink, connected, caps, permanent, puid, uidn>>

PubPart ==
    /\ link = "up"
    /\ \E client \in DOMAIN users, channel \in Chans :
        Commit("part", part(Cur, client, channel, Now))
    /\ UNCHANGED <<Conf, Aux, Io, uplink, connected, caps, permanent, puid, uidn>>

PubQuit ==
    /\ link = "up"
    /\ \E numeric \in DOMAIN users : Commit("quit", quit(Cur, numeric))
    /\ UNCHANGED <<Conf, Aux, Io, uplink, connected, caps, permanent, puid, uidn>>

\* The public operations with their write side: who they are called for
\* (users of the map, a UID that may be no user, and our SID), and the
\* frames they hand to send().
OpSources == DOMAIN users \cup {"00BAAA", sid}
Topics == {"hi"}

QueuedLines(lines) ==
    [i \in DOMAIN lines |->
        [no |-> sent + i, cmd |-> lines[i].cmd, queued |-> TRUE,
         source |-> lines[i].source, target |-> lines[i].target]]

\* The call of a public operation: its outcome is committed and its lines
\* join the send queue.
Operation(op, r, source) ==
    /\ sent + Len(r.out) <= MaxOps
    /\ CommitLine(op, r, source, NoSeq)
    /\ sendq' = sendq \o QueuedLines(r.out)
    /\ sent' = sent + Len(r.out)
    /\ UNCHANGED <<Conf, Aux, uplink, connected, caps, permanent, puid, uidn, has_eob, wire>>

\* join(client, channel) of the protocol module the Network runs.
OpJoin ==
    /\ link = "up"
    /\ \E client \in OpSources, channel \in Chans :
        LET r == IF dialect = "ngircd" THEN ng_join(Cur, client, channel)
                 ELSE join(Cur, client, channel, Now) IN
        /\ sent + Len(r.out) <= MaxSent
        /\ CommitLine("join", r, client, NoSeq)
        /\ sendq' = sendq \o QueuedLines(r.out)
        /\ sent' = sent + Len(r.out)
    /\ UNCHANGED <<Conf, Aux, uplink, connected, caps, permanent, puid, uidn, has_eob, wire>>

OpPart ==
    /\ link = "up"
    /\ \E client \in OpSources, channel \in Chans :
        Operation("part", part(Cur, client, channel, Now), client)

OpQuit ==
    /\ link = "up"
    /\ \E numeric \in OpSources : Operation("quit", quit(Cur, numeric), numeric)

OpMessage ==
    /\ link = "up"
    /\ \E numeric \in OpSources, target \in Chans :
        Operation("message", message(Cur, numeric, target), numeric)

OpNotice ==
    /\ link = "up"
    /\ \E numeric \in OpSources, target \in Chans :
        Operation("notice", notice(Cur, numeric, target), numeric)

OpTopic ==
    /\ link = "up"
    /\ \E numeric \in OpSources, target \in Chans, text \in Topics :
        Operation("topic", topic(Cur, numeric, target, text, Now), numeric)

\* The mode lists mode() is called with: n bans on distinct masks (12 and
\* 20 on short ones, 13 on long ones), a simple mode, and +o for our first
\* client.
ShortMask == "*!*@h"
LongMask == "*!*@a.very.long.host.name.under.some.domain.of.the.example.network"
BanList(n, mask) == [i \in 1..n |-> <<"+b", mask \o ToString(i)>>]
OutModeLists ==
    {BanList(12, ShortMask), BanList(20, ShortMask), BanList(13, LongMask),
     << <<"+n", Null>> >>, << <<"+o", OwnUids[1]>> >>}

\* A frame given to the transport: its submission number on this
\* connection, its command, and whether it went through the send queue.
Frame(no, cmd, queued) == [no |-> no, cmd |-> cmd, queued |-> queued]

\* send(line) for each line of a handler, in their order: the frames join
\* the send queue.
Queued(lines) == [i \in DOMAIN lines |-> Frame(sent + i, lines[i].cmd, TRUE)]

PubMode ==
    /\ Up("unreal")
    /\ \E numeric \in {sid, UplinkSid} \cup DOMAIN users, target \in Chans,
          modes \in OutModeLists, ts \in {0, 1} :
        LET r == mode(Cur, numeric, target, modes, ts, Now) IN
        /\ sent + Len(r.out) <= MaxSent
        /\ CommitLine("mode", r, target, modes)
        /\ sendq' = sendq \o Queued(r.out)
        /\ sent' = sent + Len(r.out)
    /\ UNCHANGED <<Conf, Aux, uplink, connected, caps, permanent, puid, uidn, has_eob, wire>>

\* mode() as plugins call it, on a user.
PubUmode ==
    /\ Up("unreal") /\ sent < MaxSent
    /\ \E numeric \in {sid} \cup DOMAIN users, target \in DOMAIN users, modes \in UmodeLists :
        LET r == mode_user(Cur, numeric, target, modes) IN
        /\ CommitLine("mode", r, target, modes)
        /\ sendq' = sendq \o Queued(r.out)
        /\ sent' = sent + Len(r.out)
    /\ UNCHANGED <<Conf, Aux, uplink, connected, caps, permanent, puid, uidn, has_eob, wire>>

\* UMODE2 from a user, and SVSMODE from a server on a user it names by UID
\* or by nick.
Umode2 ==
    /\ Up("unreal")
    /\ \E numeric \in RemoteUsers, modes \in UmodeLists :
        CommitLine("UMODE2", handle_umode2(Cur, numeric, modes), numeric, modes)
    /\ UNCHANGED <<Conf, Aux, Io, uplink, connected, caps, permanent, puid, uidn>>

Svsmode ==
    /\ Up("unreal")
    /\ \E numeric \in RemoteServers, arg \in DOMAIN users \cup Nicks, modes \in UmodeLists :
        CommitLine("SVSMODE", handle_svsmode(Cur, numeric, arg, modes), arg, modes)
    /\ UNCHANGED <<Conf, Aux, Io, uplink, connected, caps, permanent, puid, uidn>>

\* The lines of the universe that reach handle_events on an UnrealIRCd
\* link: introductions (one of a user called 'ping'), PING with and
\* without a sender, QUIT from a user named by nick and by UID, ENCAP with a
\* handled and with an unhandled subcommand, EOS, and lines that name our
\* server or our client as their sender.
InLines ==
    { InLine(TRUE,  <<"001", "UID", "ping", "00AAAA">>),
      InLine(TRUE,  <<"001", "UID", "bob", "00BAAA">>),
      InLine(FALSE, <<"PING", "x">>),
      InLine(FALSE, <<"ping", "x">>),
      InLine(TRUE,  <<"up.net", "PING", "x">>),
      InLine(TRUE,  <<"bob", "QUIT", "bye">>),
      InLine(TRUE,  <<"00AAAA", "QUIT", "bye">>),
      InLine(TRUE,  <<"001", "ENCAP", "*", "KILL", "00BAAA", "bye">>),
      InLine(TRUE,  <<"001", "ENCAP", "*", "SU", "00AAAA", "GL">>),
      InLine(TRUE,  <<"001", "EOS">>),
      InLine(FALSE, <<"EOS">>),
      InLine(TRUE,  <<"0AL", "KILL", "00BAAA", "x">>),
      InLine(TRUE,  <<"pylink.int", "EOS">>),
      InLine(TRUE,  <<"0ALAAA", "QUIT", "x">>) }

\* One line through handle_events: the handler's changes are kept, its
\* lines are sent (a PONG goes past the send queue), and its payload, if it
\* returned one, is published as the hook the command maps to.
Line ==
    /\ Up("unreal")
    /\ \E line \in InLines :
        LET d == handle_events(Cur, line, uplink) IN
        /\ sent + Len(d.r.out) <= MaxSent
        /\ servers' = d.r.st.servers
        /\ users' = d.r.st.users
        /\ channels' = d.r.st.channels
        /\ link' = IF d.r.err = "ProtocolError" THEN "dead" ELSE link
        /\ last' = [Last(IF d.command = Null THEN "-" ELSE d.command, d.r) EXCEPT
                        !.line = line, !.sender = d.sender, !.called = d.called,
                        !.items = d.args,
                        !.hook = IF d.r.ret THEN hook_map(d.command) ELSE Null]
        /\ wire' = wire \o [i \in DOMAIN d.r.out |-> Frame(sent + i, d.r.out[i].cmd, FALSE)]
        /\ sent' = sent + Len(d.r.out)
    /\ UNCHANGED <<Conf, Aux, uplink, connected, caps, permanent, puid, uidn, has_eob, sendq>>

\* Faulty variant of the writer: the newest queued frame is written first.
FlushNewest ==
    /\ link = "up"
    /\ sendq # << >>
    /\ wire' = Append(wire, sendq[Len(sendq)])
    /\ sendq' = SubSeq(sendq, 1, Len(sendq) - 1)
    /\ last' = Last("flush", Result(Cur, "none", FALSE))
    /\ UNCHANGED <<Conf, Aux, link, uplink, connected, caps, permanent, puid, uidn,
                   servers, users, channels, has_eob, sent>>

\* The writer of the transport takes the oldest queued frame to the socket.
Flush ==
    /\ link = "up"
    /\ sendq # << >>
    /\ wire' = Append(wire, Head(sendq))
    /\ sendq' = Tail(sendq)
    /\ last' = Last("flush", Result(Cur, "none", FALSE))
    /\ UNCHANGED <<Conf, Aux, link, uplink, connected, caps, permanent, puid, uidn,
                   servers, users, channels, has_eob, sent>>

\* IRCCommonProtocol._ping_uplink: a PING to the uplink, named by our SID,
\* through the send queue.
PingUplink ==
    /\ link = "up" /\ sent < MaxSent
    /\ sid # Null
    /\ sendq' = Append(sendq, Frame(sent + 1, "PING", TRUE))
    /\ sent' = sent + 1
    /\ last' = Last("ping_uplink", Result(Cur, "none", FALSE))
    /\ UNCHANGED <<Conf, Aux, link, uplink, connected, caps, permanent, puid, uidn,
                   servers, users, channels, has_eob, wire>>

NgSpawnClient ==
    /\ Up("ngircd") /\ uidn < MaxSpawn /\ sent < MaxSent
    /\ \E nick \in Nicks, server \in {sid} \cup RemoteServers :
        LET r == ng_spawn_client(Cur, nick, server, puid) IN
        /\ CommitLine("spawn_client", r, nick, NoSeq)
        /\ uidn' = IF r.err = "none" THEN uidn + 1 ELSE uidn
        /\ puid' = IF r.err = "none" THEN puid + 1 ELSE puid
        /\ issued' = IF r.err = "none" THEN issued \cup {next_uid(nick, puid)} ELSE issued
        /\ sendq' = sendq \o Queued(r.out)
        /\ sent' = sent + Len(r.out)
    /\ UNCHANGED <<Conf, Aux0, uplink, connected, caps, permanent, has_eob, wire>>

\* The addresses spawn_client is called with: the default, an IPv4 and an
\* IPv6 address, and a text that is no address.
SpawnIps ==
    { <<"0", ".", "0", ".", "0", ".", "0">>, <<"1", "2", "7", ".", "0", ".", "0", ".", "0">>,
      <<":", ":", "1">>, <<"l", "o", "c", "a", "l", "h", "o", "s", "t">> }

\* spawn_client as plugins call it, with an ip; uidgen[server].next_uid()
\* runs once the server test has passed.
SpawnClientIp ==
    /\ Up("unreal") /\ uidn < MaxSpawn /\ sent < MaxSent
    /\ \E nick \in Nicks, server \in {sid, UplinkSid}, ip \in SpawnIps :
        LET r == spawn_client_ip(Cur, nick, server, OwnUids[uidn + 1], ip) IN
        /\ CommitLine("spawn_client", r, server, ip)
        /\ uidn' = IF is_internal_server(Cur, server) THEN uidn + 1 ELSE uidn
        /\ sendq' = sendq \o Queued(r.out)
        /\ sent' = sent + Len(r.out)
    /\ UNCHANGED <<Conf, Aux, uplink, connected, caps, permanent, puid, has_eob, wire>>

NgPing ==
    /\ Up("ngircd") /\ sent < MaxSent
    /\ \E source \in RemoteServers \cup RemoteUsers :
        LET r == ng_handle_ping(Cur, source, uplink, has_eob) IN
        /\ CommitLine("PING", r, source, NoSeq)
        /\ wire' = wire \o [i \in DOMAIN r.out |-> Frame(sent + i, r.out[i].cmd, FALSE)]
        /\ sent' = sent + Len(r.out)
        /\ has_eob' = (has_eob \/ source = uplink)
        /\ connected' = (connected \/ (source = uplink /\ ~has_eob))
    /\ UNCHANGED <<Conf, Aux, uplink, caps, permanent, puid, uidn, sendq>>

\* The connection is lost (the socket closes, or the uplink stops answering).
Disconnect ==
    /\ link = "up"
    /\ link' = "dead"
    /\ last' = Last("DISCONNECT", Result(Cur, "none", FALSE))
    /\ UNCHANGED <<Conf, Aux, Io, uplink, connected, caps, permanent, puid, uidn,
                   servers, users, channels>>

\* After a ProtocolError, or the loss of the connection, the link is set up
\* again by the same protocol object: the maps and the per-connection
\* settings are reset, post_connect runs, and the write side starts empty.
\* What only __init__ assigns is as it was, since __init__ does not run
\* again and post_connect does not touch it: has_eob and the PUID generator
\* of NgIRCdProtocol, and the caps list of UnrealProtocol (its legacy PUID
\* generator is made anew by post_connect).
Reconnect ==
    /\ link = "dead"
    /\ link' = "up"
    /\ uplink' = Null /\ connected' = FALSE /\ permanent' = Null
    /\ puid' = (IF dialect = "ngircd" THEN puid ELSE 0)
    /\ uidn' = (IF dialect = "ngircd" THEN uidn ELSE 0)
    /\ servers' = (sid :> Server(Null, Hostname, TRUE))
    /\ users' = [u \in {} |-> User(Null, Null)]
    /\ channels' = [c \in {} |-> Channel(0)]
    /\ sendq' = << >> /\ wire' = << >> /\ sent' = 0
    /\ passed' = FALSE
    /\ last' = Last("INIT", Result(St(servers', users', channels'), "none", FALSE))
    /\ UNCHANGED <<Conf, networkobjects, g_frame, accesses, calc, isupport, issued,
                   has_eob, caps>>

\* --------------------------------------------------- calls of the tokenizer
\* The variables of the one Network's protocol module, which the plugin
\* call and the other Networks' loops leave alone.
Proto == <<dialect, link, sid, uplink, connected, caps, permanent, puid, uidn,
           servers, users, channels, has_eob, sendq, wire, sent, isupport, issued,
           passed, last>>

\* What a call of a pure function leaves alone.
World == <<Proto, networkobjects, g_frame, accesses>>

\* spawn_client writes the address of a client of ours into its UID line,
\* and handle_uid reads the ip field of a UID line.
EncodeIp ==
    /\ calc.op = "ip"
    /\ calc' = encode_ip(calc.arg)
    /\ UNCHANGED World

DecodeIp ==
    /\ calc.op = "encode_ip" /\ calc.err = "none"
    /\ calc' = Calc("decode_ip", calc.arg, <<calc.res, decode_ip(calc.res)>>, "none")
    /\ UNCHANGED World

\* sjoin() writes one item of an SJOIN line and handle_sjoin reads it.
SjoinItem ==
    /\ calc.op = "pair"
    /\ calc' = Calc("sjoin", calc.arg,
                    IF calc.arg[1] = "user" THEN sjoin_item(calc.arg[2], calc.arg[3])
                    ELSE sjoin_listitem(calc.arg[2], calc.arg[3]),
                    "none")
    /\ UNCHANGED World

HandleSjoinItem ==
    /\ calc.op = "sjoin"
    /\ calc' = Calc("handle_sjoin", calc.arg, <<calc.res, handle_sjoin_item(Cur, calc.res)>>, "none")
    /\ UNCHANGED World

ParseArgs ==
    /\ calc.op = "args"
    /\ calc' = Calc("parse_args", calc.arg, parse_args(calc.arg), "none")
    /\ UNCHANGED World

ParsePrefixedArgs ==
    /\ calc.op = "args"
    /\ calc' = parse_prefixed_args(calc.arg)
    /\ UNCHANGED World

\* ------------------------------------------------- the 'global' command
\* g is called on the thread of the Network whose user gave the command:
\* checkPermissions raises unless the user may, and otherwise the walk of
\* world.networkobjects.items() begins.
g_call ==
    /\ g_frame.pc \in {"idle", "done", "NotAuthorizedError", "RuntimeError"}
    /\ \E irc \in NetNames, allowed \in BOOLEAN :
        g_frame' = IF allowed
                   THEN Frame_g("networks", irc, Nets, Null, 0, {}, Null)
                   ELSE Frame_g("NotAuthorizedError", irc, << >>, Null, 0, {}, Null)
    /\ UNCHANGED <<Proto, calc, networkobjects, accesses>>

\* The outer loop: the next Network of the registry; the iterator over
\* ircd.pseudoclient.channels is made by the calling thread.
g_network ==
    /\ g_frame.pc = "networks"
    /\ IF g_frame.todo = << >>
       THEN /\ g_frame' = [g_frame EXCEPT !.pc = "done", !.ircd = Null]
            /\ UNCHANGED accesses
       ELSE LET ircd == Head(g_frame.todo) IN
            /\ g_frame' = [g_frame EXCEPT
                               !.pc = "channels", !.todo = Tail(@), !.ircd = ircd,
                               !.size = Cardinality(networkobjects[ircd]),
                               !.seen = {}]
            /\ accesses' = accesses \cup {Access(ircd, g_frame.thread, "read")}
    /\ UNCHANGED <<Proto, calc, networkobjects>>

\* The inner loop: the next channel of the set.  A set iterator raises
\* RuntimeError when the set's size is not what it was when the iterator
\* was made; when the set was changed and has its old size again, the
\* iterator yields some channel it has not yielded, or ends.
g_channel ==
    /\ g_frame.pc = "channels"
    /\ LET cur == networkobjects[g_frame.ircd] IN
       IF Cardinality(cur) # g_frame.size
       THEN g_frame' = [g_frame EXCEPT !.pc = "RuntimeError"]
       ELSE IF Cardinality(g_frame.seen) = g_frame.size \/ cur \subseteq g_frame.seen
       THEN g_frame' = [g_frame EXCEPT !.pc = "networks"]
       ELSE \E channel \in cur \ g_frame.seen :
               g_frame' = [g_frame EXCEPT
                              !.pc = "msg", !.channel = channel,
                              !.seen = @ \cup {channel}]
    /\ accesses' = accesses \cup {Access(g_frame.ircd, g_frame.thread, "read")}
    /\ UNCHANGED <<Proto, calc, networkobjects>>

\* The body: ircd.msg(channel, message), called by the thread that runs g.
g_msg ==
    /\ g_frame.pc = "msg"
    /\ g_frame' = [g_frame EXCEPT !.pc = "channels"]
    /\ accesses' = accesses \cup {Access(g_frame.ircd, g_frame.thread, "msg")}
    /\ UNCHANGED <<Proto, calc, networkobjects>>

\* A Network's own loop joins its pseudoclient to a channel, or parts it:
\* join adds the channel to users[client].channels, and part, through
\* handle_part, takes it out.
pseudo_join ==
    /\ \E net \in NetNames, channel \in PseudoChans :
        /\ channel \notin networkobjects[net]
        /\ networkobjects' = [networkobjects EXCEPT ![net] = @ \cup {channel}]
        /\ accesses' = accesses \cup {Access(net, net, "join")}
    /\ UNCHANGED <<Proto, calc, g_frame>>

pseudo_part ==
    /\ \E net \in NetNames, channel \in PseudoChans :
        /\ channel \in networkobjects[net]
        /\ networkobjects' = [networkobjects EXCEPT ![net] = @ \ {channel}]
        /\ accesses' = accesses \cup {Access(net, net, "part")}
    /\ UNCHANGED <<Proto, calc, g_frame>>

\* The topology machine: server and user introductions on both dialects
\* and the removals.
Next ==
    \/ Protoctl \/ ServerAuth \/ Sid \/ Uid
    \/ NgServer \/ NgNick
    \/ Quit \/ SquitIn
    \/ Reconnect

Spec == Init /\ [][Next]_vars

\* The legacy machine of an UnrealIRCd link: servers and users introduced
\* by SERVER and NICK lines of pre-4.0 servers, their channel, and SQUIT.
NextLegacy ==
    \/ Protoctl \/ ServerAuth \/ ServerLegacy \/ NickLegacy
    \/ Join \/ Join0 \/ Part \/ Quit \/ SquitIn
    \/ Reconnect

SpecLegacy == InitFor("unreal") /\ [][NextLegacy]_vars

\* The membership machine of an UnrealIRCd link: joins of remote and of our
\* own clients, and what empties channels.
NextMemb ==
    \/ Protoctl \/ ServerAuth \/ Uid
    \/ Join \/ Join0 \/ Part \/ Kick \/ Quit \/ Kill
    \/ SpawnClient \/ PubJoin \/ PubSjoin \/ PubPart \/ PubQuit
    \/ Reconnect

SpecMemb == InitFor("unreal") /\ [][NextMemb]_vars

\* The channel-state machine of an UnrealIRCd link: bursts.
NextChan ==
    \/ Protoctl \/ ServerAuth \/ Uid \/ Sjoin \/ Mode \/ Part \/ Quit \/ Reconnect

SpecChan == InitFor("unreal") /\ [][NextChan]_vars

\* The ngIRCd link: its servers and users, our clients, the heartbeat, the
\* writer, and the loss of the connection.
NextNg ==
    \/ NgServer \/ NgNick \/ NgSpawnClient \/ NgPing \/ Flush
    \/ Disconnect \/ Reconnect

SpecNg == InitFor("ngircd") /\ [][NextNg]_vars

\* The dispatch machine of an UnrealIRCd link: the handshake, a client of
\* ours, and lines as they come through handle_events.
NextDisp ==
    \/ Protoctl \/ ServerAuth \/ SpawnClient \/ Line \/ Reconnect

SpecDisp == InitFor("unreal") /\ [][NextDisp]_vars

\* The login of both dialects: PASS, the capabilities, SERVER, and the
\* first servers and users behind the uplink.
NextLogin ==
    \/ Pass \/ Protoctl \/ ServerAuth \/ Sid
    \/ NgPass \/ NgServer \/ NgNick \/ NgPing
    \/ Reconnect

SpecLogin == Init /\ [][NextLogin]_vars

\* Clients of ours on an UnrealIRCd link, spawned with an address, during
\* and after the handshake.
NextSpawn ==
    \/ Protoctl \/ ServerAuth \/ SpawnClientIp \/ Reconnect

SpecSpawn == InitFor("unreal") /\ [][NextSpawn]_vars

\* User modes on an UnrealIRCd link: users behind the uplink and the mode
\* changes the uplink reports for them.
NextUmode ==
    \/ Protoctl \/ ServerAuth \/ Uid \/ Umode2 \/ Svsmode

SpecUmode == InitFor("unreal") /\ [][NextUmode]_vars

\* User modes we send: users behind the uplink, a client of ours, and
\* mode() on either.
NextPubUmode ==
    \/ Protoctl \/ ServerAuth \/ Uid \/ SpawnClient \/ PubUmode

SpecPubUmode == InitFor("unreal") /\ [][NextPubUmode]_vars

\* Introductions of users with their services accounts on an UnrealIRCd
\* link.
NextAccount ==
    \/ Protoctl \/ ServerAuth \/ UidAccount \/ Quit \/ Reconnect

SpecAccount == InitFor("unreal") /\ [][NextAccount]_vars

\* The write side of an ngIRCd link: introductions of our clients, which go
\* through the send queue, PONG replies, which go past it, and the writer.
NextWire ==
    \/ NgServer \/ NgSpawnClient \/ PingUplink \/ NgPing \/ Flush

SpecWire == InitFor("ngircd") /\ [][NextWire]_vars

\* The broadcast command: a call of g on one Network's thread, and the
\* loops of the Networks, which join and part their pseudoclients.
NextGlobal ==
    \/ g_call \/ g_network \/ g_channel \/ g_msg \/ pseudo_join \/ pseudo_part

SpecGlobal == InitFor("unreal") /\ [][NextGlobal]_vars

\* The public operations of an UnrealIRCd link that speak for a client of
\* ours, called for our clients and for everything else.
NextOps ==
    \/ Protoctl \/ ServerAuth \/ Uid \/ Join \/ SpawnClient
    \/ OpPart \/ OpQuit \/ OpMessage \/ OpNotice \/ OpTopic

SpecOps == InitFor("unreal") /\ [][NextOps]_vars

\* Clients of ours and their joins, on both dialects.
NextJoin ==
    \/ Protoctl \/ ServerAuth \/ SpawnClient
    \/ NgServer \/ NgSpawnClient
    \/ OpJoin

SpecJoin == Init /\ [][NextJoin]_vars

\* The negotiation of an ngIRCd link: the servers and users the uplink
\* introduces and its 005 lines.
Next005 ==
    \/ NgServer \/ NgNick \/ Ng005

Spec005 == InitFor("ngircd") /\ [][Next005]_vars

\* The tokenizer on every list of tokens of the universe.
InitTok == InitLink("unreal") /\ \E args \in TokenLists : calc = Calc("args", args, NoSeq, "none")

NextTok ==
    \/ ParseArgs \/ ParsePrefixedArgs

SpecTok == InitTok /\ [][NextTok]_vars

\* The address of a client through spawn_client's UID line and back
\* through handle_uid, for every address text of the universe.
InitIp == InitLink("unreal") /\ \E ip \in IpTexts : calc = Calc("ip", ip, NoSeq, "none")

NextIp ==
    \/ EncodeIp \/ DecodeIp

SpecIp == InitIp /\ [][NextIp]_vars

\* One item of an SJOIN through sjoin() and back through handle_sjoin: a
\* user with its prefix modes in every order, or a ban, exempt or invex
\* mask.
PrefixModes == {"q", "a", "o", "h", "v"}
PrefixLists ==
    {p \in UNION {[1..n -> PrefixModes] : n \in 0..MaxPrefixes} :
        \A i, j \in DOMAIN p : p[i] = p[j] => i = j}
ListMasks == { <<"*", "!", "*", "@", "t">>, <<"~", "a", ":", "x">>, <<"0", "0", "A", "A", "A", "A">> }
SjoinPairs ==
    {<<"user", p, u>> : p \in PrefixLists, u \in SjoinUserTexts}
        \cup {<<"list", m, k>> : m \in {"b", "e", "I"}, k \in ListMasks}

InitSjoin == InitLink("unreal") /\ \E pair \in SjoinPairs : calc = Calc("pair", pair, NoSeq, "none")

NextSjoin ==
    \/ SjoinItem \/ HandleSjoinItem

SpecSjoin == InitSjoin /\ [][NextSjoin]_vars

\* The mode changes that our server and our clients send on an UnrealIRCd
\* link, as they are submitted.
NextOut ==
    \/ SpawnClient \/ PubMode

SpecOut == InitFor("unreal") /\ [][NextOut]_vars

\* -------------------------------------------------------------- properties
\* Whether the uplink chain of server s reaches t within n links.
RECURSIVE LeadsTo(_, _, _, _)
LeadsTo(svs, s, t, n) ==
    /\ n > 0
    /\ s \in DOMAIN svs
    /\ (svs[s].uplink = t \/ LeadsTo(svs, svs[s].uplink, t, n - 1))

\* t together with every server whose uplink chain leads to t.
Rooted(svs, t) ==
    {t} \cup {s \in DOMAIN svs : LeadsTo(svs, s, t, Cardinality(DOMAIN svs))}

\* The last step was an inbound SQUIT that ran to its end and returned its
\* payload.
SquitDone == last.op = "SQUIT" /\ last.err = "none" /\ last.ret

\* C1: after an inbound SQUIT of S has been processed, the server map holds
\* neither S nor a server whose uplink chain leads to S, and the user map
\* holds no user whose server is S or such a server.
SquitClosure ==
    SquitDone =>
        /\ Rooted(servers, last.target) \cap DOMAIN servers = {}
        /\ \A u \in DOMAIN users : users[u].server \notin Rooted(servers, last.target)

\* C2: a SQUIT whose argument resolves, as a SID or as a server name, to our
\* own SID or to the uplink raises ProtocolError, which closes the link, and
\* leaves the server, user and channel maps as they were.
SquitLocalIsFatal ==
    [][(last'.op = "SQUIT" /\ get_SID(Cur, last'.arg) \in {sid, uplink}) =>
          /\ last'.err = "ProtocolError"
          /\ link' = "dead"
          /\ UNCHANGED <<servers, users, channels>>]_vars

\* C2, reached: the uplink was named by its server name in upper case while
\* users were known, and the SQUIT ended in ProtocolError.
SquitLocalIsFatalSeen ==
    /\ dialect = "unreal"
    /\ last.op = "SQUIT" /\ last.arg = "UP.NET"
    /\ last.err = "ProtocolError" /\ link = "dead"
    /\ last.target = uplink
    /\ DOMAIN users # {}

\* The users a SQUIT payload must list, given the maps before the SQUIT:
\* those hosted on the target itself and those hosted on the servers below.
HostedOn(svs, S) == UNION {svs[x].users : x \in S \cap DOMAIN svs}

SquitNicksPayload ==
    [][(last'.op = "SQUIT" /\ last'.err = "none" /\ last'.ret) =>
          \A c \in DOMAIN channels : \A u \in DOMAIN users \ DOMAIN users' :
              u \in channels[c].users =>
                  /\ c \in DOMAIN last'.nicks
                  /\ \E i \in DOMAIN last'.nicks[c] : last'.nicks[c][i] = users[u].nick]_vars

\* C5: an inbound SQUIT never enters the split of a server whose split is
\* still running: the recursion visits each server at most once.
SquitVisitsOnce == last.op = "SQUIT" => last.err # "RecursionError"

\* C6: the uplink relation of the server map is a tree: no server is its own
\* uplink, no uplink chain comes back to where it began, and every uplink
\* that is not null is a key of the server map.
UplinkTree ==
    \A s \in DOMAIN servers :
        /\ servers[s].uplink # s
        /\ ~LeadsTo(servers, s, s, Cardinality(DOMAIN servers))
        /\ servers[s].uplink # Null => servers[s].uplink \in DOMAIN servers

\* The handlers and operations state integrity is stated for.
IntegrityOps ==
    {"UID", "NICK", "JOIN", "SJOIN", "PART", "QUIT", "KILL", "SQUIT",
     "spawn_client", "join", "sjoin", "part", "quit"}

\* Every user's server is a server; user and channel agree on membership.
Integrity ==
    /\ \A u \in DOMAIN users :
        /\ users[u].server \in DOMAIN servers
        /\ \A c \in users[u].channels : c \in DOMAIN channels /\ u \in channels[c].users
    /\ \A c \in DOMAIN channels : \A u \in channels[c].users :
        u \in DOMAIN users /\ c \in users[u].channels

\* C7: state integrity holds after every inbound handler and every public
\* operation that ran to its end.
StateIntegrity == (last.op \in IntegrityOps /\ last.err = "none") => Integrity

\* Every user is in the user set of its server, and of no other.
Hosting ==
    \A s \in DOMAIN servers :
        servers[s].users = {u \in DOMAIN users : users[u].server = s}

\* C8: after a PART, QUIT, KICK or SQUIT has been processed (on a store that
\* is otherwise well-formed) every channel of the map has users or is
\* permanent.
ChannelGC ==
    (/\ last.op \in {"PART", "QUIT", "KICK", "SQUIT"}
     /\ last.err = "none"
     /\ last.op = "SQUIT" => last.ret
     /\ Integrity /\ Hosting /\ UplinkTree) =>
        \A c \in DOMAIN channels : channels[c].users # {} \/ IsPermanent(channels[c])

\* C9: an inbound SJOIN never raises the recorded TS of a channel.
TSMonotone ==
    [][last'.op = "SJOIN" =>
          \A c \in DOMAIN channels \cap DOMAIN channels' :
              channels'[c].ts <= channels[c].ts]_vars

\* C9, reached: an SJOIN with a TS above the recorded one was processed and
\* the channel still has the lower TS.
TSMonotoneSeen ==
    /\ last.op = "SJOIN" /\ last.err = "none"
    /\ last.target \in DOMAIN channels
    /\ last.ts > last.our_ts
    /\ channels[last.target].ts = last.our_ts

\* The prefix modes user u holds in channel ch.
Held(ch, u) == {p[1] : p \in {q \in ch.prefix : q[2] = u}}

\* The prefix modes an SJOIN item gives its user.
Given(item) == {m \in PrefixChars : (m = "o" /\ "@" \in item[1]) \/ (m = "v" /\ "+" \in item[1])}

\* C10 (as amended): after an inbound SJOIN with their_ts < our_ts on a
\* known channel, the channel TS is their_ts, its simple modes are exactly
\* the incoming ones, the incoming users are members, and each incoming user
\* holds the prefix modes of the burst next to those it held before
\* (exactly those of the burst if it held none).
SjoinOlderWins ==
    [][(/\ last'.op = "SJOIN" /\ last'.err = "none"
        /\ last'.target \in DOMAIN channels
        /\ last'.ts < channels[last'.target].ts) =>
          LET c == last'.target IN
          /\ c \in DOMAIN channels'
          /\ channels'[c].ts = last'.ts
          /\ channels'[c].modes = last'.modes
          /\ \A i \in DOMAIN last'.items :
                LET u == last'.items[i][2] IN
                /\ u \in channels'[c].users
                /\ Held(channels'[c], u) = Held(channels[c], u) \cup Given(last'.items[i])]_vars

\* C10, reached: a channel with one member and modes of its own took an
\* SJOIN of lower TS carrying +n and a second user as @, who now holds +o.
SjoinOlderWinsSeen ==
    /\ last.op = "SJOIN" /\ last.err = "none"
    /\ last.target \in DOMAIN channels
    /\ last.ts < last.our_ts
    /\ last.modes = {"n"}
    /\ last.items = << <<{"@"}, "00BAAA">> >>
    /\ channels[last.target].ts = last.ts
    /\ channels[last.target].modes = {"n"}
    /\ channels[last.target].users = {"00AAAA", "00BAAA"}
    /\ Held(channels[last.target], "00BAAA") = {"o"}

\* C10 as first stated: each incoming user holds exactly the prefix modes
\* given in the burst.
SjoinOlderWinsExactly ==
    [][(/\ last'.op = "SJOIN" /\ last'.err = "none"
        /\ last'.target \in DOMAIN channels
        /\ last'.ts < channels[last'.target].ts) =>
          LET c == last'.target IN
          /\ c \in DOMAIN channels'
          /\ channels'[c].ts = last'.ts
          /\ channels'[c].modes = last'.modes
          /\ \A i \in DOMAIN last'.items :
                LET u == last'.items[i][2] IN
                /\ u \in channels'[c].users
                /\ Held(channels'[c], u) = Given(last'.items[i])]_vars

\* C11: after an inbound SJOIN with their_ts > our_ts on a known channel,
\* the channel keeps its TS and its modes, every incoming user is a member,
\* and no incoming user holds a prefix mode it did not hold before.
SjoinNewerLoses ==
    [][(/\ last'.op = "SJOIN" /\ last'.err = "none"
        /\ last'.target \in DOMAIN channels
        /\ last'.ts > channels[last'.target].ts) =>
          LET c == last'.target IN
          /\ c \in DOMAIN channels'
          /\ channels'[c].ts = channels[c].ts
          /\ channels'[c].modes = channels[c].modes
          /\ channels'[c].prefix = channels[c].prefix
          /\ \A i \in DOMAIN last'.items :
                LET u == last'.items[i][2] IN
                /\ u \in channels'[c].users
                /\ Held(channels'[c], u) = Held(channels[c], u)]_vars

\* C11, reached: a channel of lower TS with a member and +n took an SJOIN of
\* higher TS carrying +m and a second user as @: TS and modes are as they
\* were, the second user is a member and holds no prefix mode.
SjoinNewerLosesSeen ==
    /\ last.op = "SJOIN" /\ last.err = "none"
    /\ last.target \in DOMAIN channels
    /\ last.ts > last.our_ts
    /\ last.modes = {"m", "P"}
    /\ last.items = << <<{"@"}, "00BAAA">> >>
    /\ channels[last.target].ts = last.our_ts
    /\ channels[last.target].modes = {"n"}
    /\ channels[last.target].users = {"00AAAA", "00BAAA"}
    /\ Held(channels[last.target], "00BAAA") = {}

\* C12: an inbound channel MODE line whose parsed list is headed by '+&' (a
\* bounce) returns no payload, so no MODE hook, raises nothing, and leaves
\* the channel as it was, its modes and TS included, and the users and
\* servers too.
ModeBounceDropped ==
    [][(/\ last'.op = "MODE"
        /\ last'.items # << >>
        /\ last'.items[1][1] = "+&") =>
          /\ last'.ret = FALSE
          /\ last'.err = "none"
          /\ (last'.arg \in DOMAIN channels =>
                /\ last'.arg \in DOMAIN channels'
                /\ channels'[last'.arg] = channels[last'.arg])
          /\ users' = users
          /\ servers' = servers]_vars

\* C12, reached: a channel with TS above 1 and a member took a bounce naming
\* +o for that member with TS 1 from a server; nothing was returned, the
\* TS is as it was and the member holds no prefix mode.
ModeBounceDroppedSeen ==
    /\ last.op = "MODE" /\ last.ret = FALSE
    /\ last.items = << <<"+&", Null>>, <<"+o", "00AAAA">> >>
    /\ last.ts = 1
    /\ last.arg \in DOMAIN channels
    /\ channels[last.arg].ts > 1
    /\ "00AAAA" \in channels[last.arg].users
    /\ Held(channels[last.arg], "00AAAA") = {}

NickCollisionSaved ==
    [][(/\ last'.op \in {"UID", "NICK"}
        /\ last'.err = "none"
        /\ nick_to_uid(Cur, last'.arg) # Null) =>
          LET uid == nick_to_uid(Cur, last'.arg) IN
          /\ <<"SAVE", uid>> \in last'.hooks
          /\ uid \in DOMAIN users'
          /\ Lower(users'[uid].nick) = Lower(users[uid].nick)]_vars

\* C15: for an inbound line ':<src> ENCAP <target> <sub> <args...>' the
\* command dispatched is <sub>, the handler for <sub> (if there is one) is
\* the one called, it receives exactly <args...>, and the hook its payload
\* is published under is named after <sub>.
EncapUnwrapped ==
    (/\ last.line.toks # << >>
     /\ last.line.prefixed
     /\ Len(last.line.toks) >= 4
     /\ last.line.toks[2] = "ENCAP"
     /\ last.err # "UnboundLocalError") =>
        /\ last.op = last.line.toks[4]
        /\ last.items = SubSeq(last.line.toks, 5, Len(last.line.toks))
        /\ last.called = (Lower(last.line.toks[4]) \in Handled)
        /\ last.ret => last.hook = hook_map(last.line.toks[4])

\* C15, reached: ':001 ENCAP * KILL 00BAAA bye' was dispatched as KILL with
\* ['00BAAA', 'bye'], the user is gone and the hook is KILL.
EncapUnwrappedSeen ==
    /\ last.line = InLine(TRUE, <<"001", "ENCAP", "*", "KILL", "00BAAA", "bye">>)
    /\ last.op = "KILL" /\ last.called /\ last.ret
    /\ last.items = <<"00BAAA", "bye">>
    /\ last.hook = "KILL"
    /\ last.sender = "001"
    /\ "00BAAA" \notin DOMAIN users
    /\ "00AAAA" \in DOMAIN users

\* C16: a line whose first token does not begin with ':' is attributed to
\* the uplink and its first token is taken as the command, whatever servers
\* and users are known (stated for the link once the uplink has
\* authenticated).
UnprefixedIsUplink ==
    (connected /\ last.line.toks # << >> /\ ~last.line.prefixed) =>
        /\ last.sender = uplink
        /\ last.op = Upper(last.line.toks[1])

\* C17: a line whose sender resolves to a client or a server of ours ends
\* handle_events without an exception, with no handler called, no hook and
\* no change of the maps.
InternalSenderRejected ==
    [][(/\ last'.line.toks # << >>
        /\ (is_internal_client(Cur, last'.sender) \/ is_internal_server(Cur, last'.sender))) =>
          /\ last'.err = "none"
          /\ ~last'.called
          /\ ~last'.ret
          /\ servers' = servers /\ users' = users /\ channels' = channels]_vars

\* C18: on an ngIRCd link, on every connection, the first PING of the
\* uplink (no PONG was written on this connection yet) sets connected and
\* yields the ENDBURST hook and a PONG; every later PING of the uplink
\* yields a PONG and no hook; a PING of any other source yields neither.
FirstPingEndsBurst ==
    [][(last'.op = "PING" /\ dialect = "ngircd") =>
          LET pongs == {i \in DOMAIN wire : wire[i].cmd = "PONG"} IN
          IF last'.arg = uplink
          THEN /\ Len(wire') = Len(wire) + 1
               /\ wire'[Len(wire')].cmd = "PONG"
               /\ IF pongs = {}
                  THEN connected' /\ last'.ret /\ last'.hook = "ENDBURST"
                  ELSE ~last'.ret /\ connected' = connected
          ELSE ~last'.ret /\ wire' = wire /\ connected' = connected]_vars

\* C19: whenever an ENDBURST hook is published the connected event is set;
\* on UnrealIRCd this is so for every EOS line that yields the hook.
EndburstMeansConnected ==
    (last.ret /\ last.hook = "ENDBURST") => connected

\* C20 (as amended): the frames that went through the send queue are on the
\* wire in the order of their submission, and nothing is written twice or
\* lost; a frame submitted with queue=False is written at once, ahead of
\* the frames still queued.
RECURSIVE Ascending(_)
Ascending(q) ==
    Len(q) < 2 \/ (q[1].no < q[2].no /\ Ascending(Tail(q)))

CallsOnOwnLoop ==
    \A a \in accesses : a.thread = a.net

\* C22: part, quit, message and topic called for a source that is no client
\* of ours, and notice called for a source that is neither a client nor a
\* server of ours, raise LookupError, hand no frame to send(), and leave
\* the server, user and channel maps as they were.
OpsRejectForeign ==
    [][(/\ last'.op \in {"part", "quit", "message", "notice", "topic"}
        /\ ~is_internal_client(Cur, last'.arg)
        /\ (last'.op = "notice" => ~is_internal_server(Cur, last'.arg)))
       => /\ last'.err = "LookupError"
          /\ last'.out = << >>
          /\ UNCHANGED <<servers, users, channels, sendq, wire, sent>>]_vars

\* C22, reached: topic was refused for a user of the uplink that sits in a
\* channel, while a client of ours exists and frames are queued.
OpsRejectForeignSeen ==
    /\ last.op = "topic" /\ last.err = "LookupError"
    /\ last.arg \in RemoteUsers
    /\ users[last.arg].channels # {}
    /\ \E u \in DOMAIN users : is_internal_client(Cur, u)
    /\ sendq # << >>
    /\ \A c \in DOMAIN channels : channels[c].topic = Null

\* C23: on every dialect, after join(uid, channel) has returned for a
\* client of ours, uid is in channels[channel].users, channel is in
\* users[uid].channels, and one JOIN frame with that user as its source was
\* sent.
JoinJoins ==
    (last.op = "join" /\ last.err = "none" /\ is_internal_client(Cur, last.arg)) =>
        /\ last.target \in DOMAIN channels
        /\ last.arg \in channels[last.target].users
        /\ last.target \in users[last.arg].channels
        /\ Len(last.out) = 1
        /\ last.out[1].cmd = "JOIN"
        /\ last.out[1].source = expandPUID(Cur, last.arg)
        /\ sendq # << >>

\* C24: on an ngIRCd link a 005 line is consumed: after it every token of
\* the line is a key of the capability map, and a CHANMODES, PREFIX,
\* CASEMAPPING or NICKLEN token of four classes, of prefixes, of a name or
\* of a number has set the channel mode classes, the prefix mode table, the
\* case mapping and maxnicklen.
Isupport005Consumed ==
    (last.op = "005" /\ last.err = "none" /\ dialect = "ngircd") =>
        LET newcaps == parse_isupport(last.items) IN
        /\ \A i \in DOMAIN last.items :
              /\ last.items[i][1] \in DOMAIN isupport.caps
              /\ isupport.caps[last.items[i][1]] = newcaps[last.items[i][1]]
        /\ "CHANMODES" \in DOMAIN newcaps =>
              /\ {"*A", "*B", "*C", "*D"} \subseteq DOMAIN isupport.cmodes
              /\ <<isupport.cmodes["*A"], isupport.cmodes["*B"],
                   isupport.cmodes["*C"], isupport.cmodes["*D"]>>
                     = SplitCommas(newcaps["CHANMODES"])
        /\ "PREFIX" \in DOMAIN newcaps =>
              isupport.prefixmodes = parse_isupport_prefixes(newcaps["PREFIX"])
        /\ "CASEMAPPING" \in DOMAIN newcaps =>
              isupport.casemapping = newcaps["CASEMAPPING"]
        /\ "NICKLEN" \in DOMAIN newcaps =>
              isupport.maxnicklen = ToInt(newcaps["NICKLEN"])

\* C25: parse_args gives the tokens before the first token after the first
\* that begins with ':', and then one last argument: that token and all
\* later ones joined by single spaces, less the one leading ':'.  With no
\* such token the result is the tokens themselves, and the first token is
\* never taken for the trailing argument.
Trailing(args) == {i \in DOMAIN args : i > 1 /\ startswith_colon(args[i])}

ParseArgsTrailing ==
    calc.op = "parse_args" =>
        LET args == calc.arg
            res  == calc.res
        IN  /\ calc.err = "none"
            /\ res[1] = args[1]
            /\ IF Trailing(args) = {} THEN res = args
               ELSE LET k == CHOOSE i \in Trailing(args) : \A j \in Trailing(args) : i <= j
                        rest == SubSeq(args, k + 1, Len(args))
                    IN  /\ Len(res) = k
                        /\ \A i \in 1..(k - 1) : res[i] = args[i]
                        /\ res[k] = join_spaces(<<Tail(args[k])>> \o rest)

\* C25, reached: the tokens ':a', '::' and ':' gave ':a' and the last
\* argument ': :', which begins with the second ':' of '::'.
ParseArgsTrailingSeen ==
    /\ calc.op = "parse_args"
    /\ Len(calc.arg) = 3
    /\ calc.arg[1] = <<":", "a">> /\ calc.arg[2] = <<":", ":">> /\ calc.arg[3] = <<":">>
    /\ calc.res = << <<":", "a">>, <<":", " ", ":">> >>

PuidFresh ==
    [][puid' = puid + 1 =>
          LET uid == next_uid(last'.arg, puid) IN
          /\ uid \notin issued
          /\ uid \notin DOMAIN users
          /\ issued' = issued \cup {uid}
          /\ last'.err = "none" => uid \in DOMAIN users']_vars

\* C28 (as amended): for every IPv4 or IPv6 address, the wire form that
\* spawn_client encodes is '*' for 0.0.0.0 alone and else holds the packed
\* address, and what handle_uid decodes from it is the text of the same
\* address: the text handed in, with a '0' put in front when it begins
\* with ':'.
IpRoundTripAddress ==
    /\ calc.op = "encode_ip" => calc.err = "none"
    /\ calc.op = "decode_ip" =>
          LET ip      == calc.arg
              raw_ip  == calc.res[1]
              decoded == calc.res[2]
              dummy   == <<"0", ".", "0", ".", "0", ".", "0">>
          IN  /\ (ip = dummy) <=> (raw_ip = <<"*">>)
              /\ ip = dummy => decoded = dummy
              /\ ip # dummy => b64decode(raw_ip) = inet_pton(ip)
              /\ decoded = (IF startswith_colon(ip) THEN <<"0">> \o ip ELSE ip)
              /\ ~startswith_colon(decoded)

\* C28, reached: ::1 went out as sixteen packed bytes in Base64 and came
\* back as 0::1.
IpRoundTripAddressSeen ==
    /\ calc.op = "decode_ip"
    /\ calc.arg = <<":", ":", "1">>
    /\ Len(calc.res[1]) = 24
    /\ b64decode(calc.res[1]) = [i \in 1..16 |-> IF i = 16 THEN 1 ELSE 0]
    /\ calc.res[2] = <<"0", ":", ":", "1">>

\* C28 as stated: what handle_uid decodes is the text that spawn_client was
\* handed, for every address, and 0.0.0.0 alone goes out as '*'.
IpRoundTrip ==
    /\ calc.op = "encode_ip" => calc.err = "none"
    /\ calc.op = "decode_ip" =>
          /\ calc.res[2] = calc.arg
          /\ (calc.arg = <<"0", ".", "0", ".", "0", ".", "0">>) <=> (calc.res[1] = <<"*">>)

\* C29: on an UnrealIRCd link connected is set only by a SERVER line that
\* raised nothing, with every needed capability in caps and the uplink put
\* into the server map, and only when the uplink's PROTOCTL lines came on
\* this connection: a line came before the SERVER line since the connection
\* began, and the SID= and CHANMODES= tokens, which set uplink and the
\* channel modes anew on every connection, have come.
ConnectedByThisHandshake ==
    [][(dialect = "unreal" /\ ~connected /\ connected') =>
          /\ last'.op = "SERVER" /\ last'.err = "none"
          /\ NeededCaps \subseteq caps
          /\ uplink \in DOMAIN servers'
          /\ last.op # "INIT"
          /\ uplink # Null
          /\ permanent # Null]_vars
\* C30: the channeldata of a SQUIT payload has, for every channel there was
\* before the SQUIT, the membership the channel had then, and its
\* serverdata is the split server as it was then, users included.
SquitPayloadSnapshots ==
    [][(last'.op = "SQUIT" /\ last'.ret /\ last'.err = "none") =>
          \A rev \in BOOLEAN :
             LET r == Squit(Cur, last'.arg, {}, Walk(DOMAIN servers, rev),
                            Walk(HostedUids, rev))
             IN  r.ulist = last'.ulist =>
                   /\ DOMAIN r.channeldata = DOMAIN channels
                   /\ \A c \in DOMAIN channels :
                         r.channeldata[c].users = channels[c].users
                   /\ r.serverdata = servers[r.target]]_vars
\* C31: a link is authenticated (UnrealIRCd: connected is set and the
\* uplink is in the server map; ngIRCd: handle_server took a server as
\* uplink) only if a PASS line with the configured password came before on
\* the same connection, and a PASS line with another password is fatal.
PassBeforeAuth ==
    /\ (dialect = "unreal" /\ connected /\ uplink \in DOMAIN servers) => passed
    /\ (dialect = "ngircd" /\ uplink # Null) => passed
    /\ (last.op = "PASS" /\ last.arg # RecvPass) => (last.err = "ProtocolError" /\ link = "dead")
\* C32: every user of the user map is in the user set of the server it
\* names, and every UID in a server's user set is a user whose server is
\* that one.
ServerUserSymmetry ==
    /\ \A u \in DOMAIN users :
          /\ users[u].server \in DOMAIN servers
          /\ u \in servers[users[u].server].users
    /\ \A s \in DOMAIN servers : \A u \in servers[s].users :
          /\ u \in DOMAIN users
          /\ users[u].server = s
\* C33: a call of spawn_client on UnrealIRCd either stores the new user,
\* adds it to the user set of its server and sends the UID line, or raises
\* and leaves the maps as they were and sends nothing.
SpawnClientAllOrNothing ==
    [][(last'.op = "spawn_client" /\ dialect = "unreal") =>
          LET uid == OwnUids[uidn + 1]
              server == last'.arg
          IN  \/ /\ last'.err = "none"
                 /\ uid \in DOMAIN users' /\ uid \notin DOMAIN users
                 /\ uid \in servers'[server].users
                 /\ Len(sendq') = Len(sendq) + 1
                 /\ sendq'[Len(sendq')].cmd = "UID"
              \/ /\ last'.err # "none"
                 /\ users' = users /\ servers' = servers
                 /\ sendq' = sendq /\ wire' = wire]_vars
\* C34: when mode() raises LookupError or ProtocolError, the mode set of
\* its target is what it was before the call, and no frame was sent.
ModeRaisesClean ==
    [][(last'.op = "mode" /\ last'.err \in {"LookupError", "ProtocolError"}) =>
          /\ last'.arg \in DOMAIN users =>
                /\ last'.arg \in DOMAIN users'
                /\ users'[last'.arg].modes = users[last'.arg].modes
          /\ last'.arg \in DOMAIN channels =>
                /\ last'.arg \in DOMAIN channels'
                /\ channels'[last'.arg].modes = channels[last'.arg].modes
                /\ channels'[last'.arg].prefix = channels[last'.arg].prefix
          /\ sendq' = sendq /\ wire' = wire /\ sent' = sent]_vars
\* C36: after a UMODE2 or SVSMODE line was processed for a user, the
\* user's host is the cloaked host if its modes hold x and not t, and the
\* real host if they hold neither; and a SETHOST hook was published only if
\* the host is another than before.
HostFollowsModes ==
    [][(last'.op \in {"UMODE2", "SVSMODE"} /\ last'.err = "none") =>
          LET u == last'.target IN
          /\ u \in DOMAIN users /\ u \in DOMAIN users'
          /\ ("x" \in users'[u].modes /\ "t" \notin users'[u].modes)
                => users'[u].host = CloakedHost
          /\ ("x" \notin users'[u].modes /\ "t" \notin users'[u].modes)
                => users'[u].host = RealHost
          /\ <<"SETHOST", u>> \in last'.hooks => users'[u].host # users[u].host]_vars
\* C35: when a UID line introduces a user, no hook about that user, and so
\* no CLIENT_SERVICES_LOGIN from its UID, is published by the handler
\* itself, that is, before the hook of the payload it returns.
IntroductionHookFirst ==
    [][(last'.op = "UID" /\ last'.ret /\ last'.target # Null) =>
          \A h \in last'.hooks :
             h[2] = last'.target => last'.target \in DOMAIN users]_vars

\* C37: after a JOIN 0 from user u, u is a member of no channel, the
\* payload is parsed as PART and lists exactly the channels u was in, and
\* none of those channels is left in the map empty and not permanent.
JoinZeroLeavesAll ==
    [][last'.op = "JOIN0" =>
          \A u \in RemoteUsers :
             LET r == handle_join_0(Cur, u, Now) IN
             r.st = St(servers', users', channels') =>
                /\ users'[u].channels = {}
                /\ \A c \in r.channels : u \notin channels'[c].users
                /\ r.parse_as = "PART"
                /\ r.channels = users[u].channels
                /\ \A c \in r.channels :
                      c \in DOMAIN channels' =>
                         channels'[c].users # {} \/ IsPermanent(channels'[c])]_vars

\* C38: an inbound SQUIT whose target resolves to no server of the map, and
\* is neither the own SID nor the uplink, changes none of the server, user
\* and channel maps, raises nothing, returns no payload and publishes no
\* hook.
SquitUnknownNoOp ==
    [][(/\ last'.op = "SQUIT"
        /\ get_SID(Cur, last'.arg) \notin DOMAIN servers
        /\ ~SplitIsLocal(get_SID(Cur, last'.arg))) =>
          /\ servers' = servers /\ users' = users /\ channels' = channels
          /\ last'.err = "none" /\ ~last'.ret
          /\ last'.hook = Null /\ last'.hooks = {}
          /\ link' = link]_vars

\* A SQUIT for a server nobody knows has been handled on a link that has
\* servers, users and channels to lose.
SquitUnknownSeen ==
    /\ last.op = "SQUIT" /\ last.arg = "zz.net" /\ last.target = "zz.net"
    /\ last.err = "none" /\ ~last.ret
    /\ "zz.net" \notin DOMAIN servers
    /\ \A k \in DOMAIN servers : Lower(servers[k].name) # "zz.net"
    /\ RemoteServers # {} /\ DOMAIN users # {} /\ DOMAIN channels # {}

\* C39: the item sjoin() writes for a user with prefix modes among q, a, o,
\* h and v carries '*', '~', '@', '%' and '+' for them and is read by
\* handle_sjoin as the same user with exactly those prefix modes; the item
\* of a ban, exempt or invex mask is read as the list mode +b, +e or +I of
\* that mask and adds no user.
SjoinPrefixRoundTrip ==
    calc.op = "handle_sjoin" =>
        LET item == calc.res[1]
            got  == calc.res[2]
        IN  IF calc.arg[1] = "user"
            THEN /\ item = [i \in 1..Len(calc.arg[2]) |->
                               CASE calc.arg[2][i] = "q" -> "*" [] calc.arg[2][i] = "a" -> "~"
                                 [] calc.arg[2][i] = "o" -> "@" [] calc.arg[2][i] = "h" -> "%"
                                 [] calc.arg[2][i] = "v" -> "+"] \o calc.arg[3]
                 /\ got.user = Text(calc.arg[3])
                 /\ got.changedmodes =
                       {<<"+" \o calc.arg[2][i], got.user>> : i \in DOMAIN calc.arg[2]}
            ELSE /\ got.user = Null
                 /\ got.changedmodes = {<<"+" \o calc.arg[2], calc.arg[3]>>}

\* The item '*~@%+00AAAA' of a user with all five prefix modes has been
\* read back.
SjoinPrefixRoundTripSeen ==
    /\ calc.op = "handle_sjoin"
    /\ calc.arg[1] = "user"
    /\ calc.res[1] = <<"*", "~", "@", "%", "+", "0", "0", "A", "A", "A", "A">>
    /\ calc.res[2].user = "00AAAA"
    /\ Cardinality(calc.res[2].changedmodes) = 5

\* C40: an inbound channel MODE never raises the recorded TS of a channel,
\* and changes it only if the line comes from a server and its last
\* argument is a number above 0; a MODE from a user, a line with no number
\* at its end and a line ending in 0 leave the TS as it was.
ModeTSFromServerOnly ==
    [][last'.op = "MODE" =>
          \A c \in DOMAIN channels \cap DOMAIN channels' :
             /\ channels'[c].ts <= channels[c].ts
             /\ channels'[c].ts # channels[c].ts =>
                   /\ c = last'.arg
                   /\ \A numeric \in RemoteServers \cup RemoteUsers, lastarg \in ModeLastArgs :
                         handle_mode(Cur, numeric, last'.arg, last'.items, lastarg, Now).st
                               = St(servers', users', channels') =>
                            numeric \in DOMAIN servers /\ lastarg > 0]_vars

\* A MODE from a server, ending in a TS below the recorded one, has lowered
\* the TS of a channel with a member.
ModeTSFromServerOnlySeen ==
    /\ last.op = "MODE" /\ last.err = "none" /\ last.ret
    /\ last.arg \in DOMAIN channels
    /\ channels[last.arg].users # {}
    /\ last.ts > 0 /\ last.ts < last.our_ts
    /\ channels[last.arg].ts = last.ts
====
